---------------------------- MODULE Spec2Model ----------------------------
(***************************************************************************)
(* A model of the red-black tree of redblacktree/red_black_tree.py and of   *)
(* its line-command driver redblacktree/tree_test.py, and of the binomial   *)
(* heap of binomialheap/binomial_heap.py with its command-line interface    *)
(* binomialheap/binomial_driver.py, and of the skip list of                 *)
(* skiplist/skiplist.py.                                                    *)
(*                                                                         *)
(* The heap of Node objects is a set of node identities with one function  *)
(* per field (key, color, left, right, parent); the tree object is its     *)
(* root reference.  Every public call (insert, delete, search, a rotation) *)
(* is one action that                                                      *)
(* runs the whole method, its fix-up loop included.  The methods are       *)
(* operators on a record holding the heap, translated statement by         *)
(* statement; a loop is a RECURSIVE operator.  The mirrored left/right     *)
(* branches of the fix-up loops are written once, over the side S of the   *)
(* branch and the opposite side O.                                         *)
(***************************************************************************)
EXTENDS Integers, Sequences, FiniteSets, Bags, TLC

\* ------------------------------------------------------------- bounds
MaxKey == 3
MaxNodes == 5
MaxDrainKey == 5
\* Node objects of the insert-only and of the rotation scenarios.
MaxGrow == 8
MaxRotNodes == 4
\* Node objects of the scenario with search calls between the updates.
MaxQueryNodes == 4
\* Node objects of the driver scenario and tokens in its input file.
MaxDriverNodes == 3
\* Largest key among the driver scenario's tokens.
MaxDriverKey == 2
MaxFileLen == 2
\* BinomialNode objects ever created in a binomial-heap scenario, and the
\* largest key given to one.
MaxHeapNodes == 4
MaxHeapKey == 2
\* Largest key given to the skip list, and the coin flips of one insert
\* that can come up heads.
MaxSkipKey == 4
MaxFlips == 2
\* Iterations after which a fix-up loop is cut and reported as stuck.
MaxIter == 8

Keys == 1..MaxKey
DrainKeys == 1..MaxDrainKey
AllKeys == Keys \cup DrainKeys
Node == 1..MaxGrow
\* A descent bound no tree of the model reaches.
MaxDepth == MaxGrow + 1

\* ------------------------------------------------------------- constants
NIL == 0
RED == 0
BLACK == 1

VARIABLES
  root,            \* RedBlackTree.root
  key,             \* Node.key
  color,           \* Node.color
  left,            \* Node.left
  right,           \* Node.right
  parent,          \* Node.parent
  nodes,           \* the Node objects that exist (created and not yet dropped)
  op,              \* the last public call: "none", "insert", "delete",
                   \* "search", "left_rotate" or "right_rotate"
  arg,             \* its key (its node, for a rotation)
  result,          \* what it returned: a node or NIL (None)
  raised,          \* it ended by raising an exception
  iterations,      \* passes through fix-up loop bodies it made
  stuck,           \* one of its fix-up loops was cut after MaxIter passes
  held,            \* per key: insert calls minus delete calls that found it
  path,            \* the branch the last call took (see insert, delete)
  spliced,         \* the node the last delete removed: "self" (z) or "successor"
  rotations,       \* rotations the last call performed
  invalidRotation, \* the last call took the early return of a rotation
  phase,           \* build-then-drain scenario: "build" or "drain"
  built,           \* its keys inserted while building (the original keys)
  pending,         \* its built keys not deleted yet
  mode,            \* tree_test.main: "start", "loop" (reading commands), "exit"
  file,            \* the input file it loaded: whether it exists, its tokens
  line,            \* the command line it read last: command word, arguments
  report,          \* what it printed for that line or for the file
  bheap,           \* the BinomialHeap and BinomialNode objects (see BHeap)
  node_map,        \* InteractiveBinomialHeap.node_map: Node ID -> node
  next_node_id,    \* InteractiveBinomialHeap.next_node_id
  bop,             \* the last binomial-heap operation: its name, its heap
  bresult,         \* what that operation returned or printed
  skip,            \* the SkipList and its Node objects (see EmptySkip)
  present,         \* the keys inserted into it and not deleted since
  sop              \* the last skip-list operation: its name, its key

treeVars == <<root, key, color, left, right, parent, nodes, op, arg, result,
              raised, iterations, stuck, held, path, spliced, rotations,
              invalidRotation, phase, built, pending>>

driverVars == <<mode, file, line, report>>

\* The variables that no call on the tree object touches.
heapVars == <<bheap, node_map, next_node_id, bop, bresult>>

skipVars == <<skip, present, sop>>

notTree == <<driverVars, heapVars, skipVars>>

vars == <<treeVars, notTree>>

\* The heap as the methods see it when a public call starts.
Tree ==
  [root |-> root, key |-> key, color |-> color, left |-> left,
   right |-> right, parent |-> parent, nodes |-> nodes,
   rot |-> 0, fault |-> FALSE, path |-> "none", spliced |-> "none",
   result |-> NIL, raised |-> FALSE, iter |-> 0, stuck |-> FALSE,
   hole_sibling |-> NIL, examined |-> NIL, stopped |-> NIL,
   uncle |-> 0, rot_at |-> 0, held |-> held, mode |-> mode,
   report |-> "none"]

other(S) == IF S = "left" THEN "right" ELSE "left"

\* One more pass through the body of a fix-up loop.
pass(t) == [t EXCEPT !.iter = @ + 1]

\* A fix-up loop that is still running after MaxIter passes.
cut(t) == [t EXCEPT !.stuck = TRUE]

\* ------------------------------------------------------------- rotations
\* Mutant of lr_adopt: the moved subtree keeps its old parent reference.
lr_adopt_no_reparent(t, x, y) == [t EXCEPT !.right[x] = t.left[y]]

\* Lines 45-48: x.right = y.left, and y.left (if any) gets parent x.
lr_adopt(t, x, y) ==
  IF t.left[y] /= NIL
  THEN [t EXCEPT !.right[x] = t.left[y], !.parent[t.left[y]] = x]
  ELSE [t EXCEPT !.right[x] = t.left[y]]

\* Mutant of lr_promote: under a parent, y is always hung on the left.
lr_promote_left_slot(t, x, y) ==
  IF t.parent[x] = NIL
  THEN [t EXCEPT !.parent[y] = t.parent[x], !.root = y]
  ELSE [t EXCEPT !.parent[y] = t.parent[x], !.left[t.parent[x]] = y]

\* Lines 50-57: y takes x's parent and x's place under it (or the root).
lr_promote(t, x, y) ==
  IF t.parent[x] = NIL
  THEN [t EXCEPT !.parent[y] = t.parent[x], !.root = y]
  ELSE IF x = t.left[t.parent[x]]
       THEN [t EXCEPT !.parent[y] = t.parent[x], !.left[t.parent[x]] = y]
       ELSE [t EXCEPT !.parent[y] = t.parent[x], !.right[t.parent[x]] = y]

\* Lines 59-60: x becomes the left child of y.
lr_attach(t, x, y) ==
  [t EXCEPT !.left[y] = x, !.parent[x] = y, !.rot = @ + 1]

left_rotate(t, x) ==
  IF x = NIL \/ t.right[x] = NIL THEN [t EXCEPT !.fault = TRUE]
  ELSE lr_attach(lr_promote(lr_adopt(t, x, t.right[x]), x, t.right[x]),
                 x, t.right[x])

\* Lines 73-76.
rr_adopt(t, y, x) ==
  IF t.right[x] /= NIL
  THEN [t EXCEPT !.left[y] = t.right[x], !.parent[t.right[x]] = y]
  ELSE [t EXCEPT !.left[y] = t.right[x]]

\* Lines 78-85.
rr_promote(t, y, x) ==
  IF t.parent[y] = NIL
  THEN [t EXCEPT !.parent[x] = t.parent[y], !.root = x]
  ELSE IF y = t.left[t.parent[y]]
       THEN [t EXCEPT !.parent[x] = t.parent[y], !.left[t.parent[y]] = x]
       ELSE [t EXCEPT !.parent[x] = t.parent[y], !.right[t.parent[y]] = x]

\* Lines 87-88.
rr_attach(t, y, x) ==
  [t EXCEPT !.right[x] = y, !.parent[y] = x, !.rot = @ + 1]

right_rotate(t, y) ==
  IF y = NIL \/ t.left[y] = NIL THEN [t EXCEPT !.fault = TRUE]
  ELSE rr_attach(rr_promote(rr_adopt(t, y, t.left[y]), y, t.left[y]),
                 y, t.left[y])

\* left_rotate in the branch of side "left", right_rotate in its mirror.
rotate(t, x, dir) ==
  IF dir = "left" THEN left_rotate(t, x) ELSE right_rotate(t, x)

\* ------------------------------------------------------------- queries
\* Mutant of search_from: the loop stops at the first key not below k.
RECURSIVE search_from_not_below(_, _, _)
search_from_not_below(t, temp, k) ==
  IF temp /= NIL /\ t.key[temp] < k
  THEN search_from_not_below(t, t.right[temp], k)
  ELSE temp

RECURSIVE search_from(_, _, _)
search_from(t, temp, k) ==
  IF temp /= NIL /\ t.key[temp] /= k
  THEN search_from(t, IF k < t.key[temp] THEN t.left[temp] ELSE t.right[temp], k)
  ELSE temp

\* Mutant of search: only the root is compared, the loop never descends.
search_at_root(t, k) ==
  IF t.root /= NIL /\ t.key[t.root] = k THEN t.root ELSE NIL

search(t, k) == search_from(t, t.root, k)

\* Mutant of search_call: a self-adjusting search, the node found is
\* rotated one level up.
search_call_adjusting(t, k) ==
  IF search(t, k) /= NIL /\ t.parent[search(t, k)] /= NIL
  THEN rotate([t EXCEPT !.result = search(t, k)], t.parent[search(t, k)],
              IF search(t, k) = t.left[t.parent[search(t, k)]]
              THEN "right" ELSE "left")
  ELSE [t EXCEPT !.result = search(t, k)]

\* search as a public call: the heap as it leaves it (lines 371-377 assign
\* only the local temp) and the node returned.
search_call(t, k) == [t EXCEPT !.result = search(t, k)]

\* Mutant of find_min: the loop is left out, the subtree root is returned.
find_min_no_descent(t, node) == node

RECURSIVE find_min(_, _)
find_min(t, node) ==
  IF node = NIL THEN NIL
  ELSE IF t.left[node] /= NIL THEN find_min(t, t.left[node]) ELSE node

RECURSIVE find_max(_, _)
find_max(t, node) ==
  IF node = NIL THEN NIL
  ELSE IF t.right[node] /= NIL THEN find_max(t, t.right[node]) ELSE node

\* What a printing query reports: the message and the key in it, if any.
find_min_value(t) ==
  IF t.root = NIL THEN <<"Tree empty", NIL>>
  ELSE IF find_min(t, t.root) /= NIL
  THEN <<"Minimum value in the tree is", t.key[find_min(t, t.root)]>>
  ELSE <<"The tree is empty", NIL>>

find_max_value(t) ==
  IF t.root = NIL THEN <<"Tree empty", NIL>>
  ELSE IF find_max(t, t.root) /= NIL
  THEN <<"Maximum value in the tree is", t.key[find_max(t, t.root)]>>
  ELSE <<"The tree is empty", NIL>>

\* Mutant of successor_climb: the parent is returned without climbing.
successor_climb_none(t, node, y) == y

RECURSIVE successor_climb(_, _, _)
successor_climb(t, node, y) ==
  IF y /= NIL /\ node = t.right[y]
  THEN successor_climb(t, y, t.parent[y]) ELSE y

successor(t, node) ==
  IF node = NIL THEN NIL
  ELSE IF t.right[node] /= NIL THEN find_min(t, t.right[node])
  ELSE successor_climb(t, node, t.parent[node])

RECURSIVE predecessor_climb(_, _, _)
predecessor_climb(t, node, temp) ==
  IF temp /= NIL /\ node = t.left[temp]
  THEN predecessor_climb(t, temp, t.parent[temp]) ELSE temp

predecessor(t, node) ==
  IF node = NIL THEN NIL
  ELSE IF t.left[node] /= NIL THEN find_max(t, t.left[node])
  ELSE predecessor_climb(t, node, t.parent[node])

\* Lines 517-521: the report for the successor node succ.
fs_report(t, succ) ==
  IF succ /= NIL THEN <<"The Successor is", t.key[succ]>>
  ELSE <<"No successor for requested key", NIL>>

\* Lines 515-523 with the node of the key searched.
fs_node(t, node) ==
  IF node /= NIL THEN fs_report(t, successor(t, node))
  ELSE <<"The requested key does not exist", NIL>>

find_successor(t, k) == fs_node(t, search(t, k))

\* Lines 534-538.
fp_report(t, pred) ==
  IF pred /= NIL THEN <<"The Predecessor is", t.key[pred]>>
  ELSE <<"No predecessor for requested key", NIL>>

\* Lines 532-540.
fp_node(t, node) ==
  IF node /= NIL THEN fp_report(t, predecessor(t, node))
  ELSE <<"The requested key does not exist", NIL>>

find_predecessor(t, k) == fp_node(t, search(t, k))

Max(a, b) == IF a > b THEN a ELSE b

\* Edges on the longest path from x down to a node, -1 for None.
RECURSIVE get_height(_, _)
get_height(t, x) ==
  IF x = NIL THEN -1
  ELSE Max(get_height(t, t.left[x]), get_height(t, t.right[x])) + 1

\* ------------------------------------------------------------- insertion
RECURSIVE fix_insert_loop(_, _)

\* Red uncle y (lines 134-136 / 149-151).
fi_recolor(t, z, y) ==
  [t EXCEPT !.color[t.parent[z]] = BLACK, !.color[y] = BLACK,
            !.color[t.parent[t.parent[z]]] = RED, !.uncle = @ + 1]

\* Lines 139-141 / 154-156: z on the inner side, rotate at the parent.
fi_inner(t, z, S, O) ==
  IF z = t[O][t.parent[z]] THEN rotate(t, t.parent[z], S) ELSE t

\* Mutant of fi_outer: the rotation at the grandparent without the two
\* colour assignments before it.
fi_outer_no_recolor(t, z, O) ==
  fix_insert_loop(
    IF t.parent[z] /= NIL /\ t.parent[t.parent[z]] /= NIL
    THEN rotate([t EXCEPT !.rot_at = t.iter], t.parent[t.parent[z]], O)
    ELSE t,
    z)

\* Lines 142-145 / 157-160, then the loop test again.  rot_at is the pass
\* in which the rotation at the grandparent was made.
fi_outer(t, z, O) ==
  fix_insert_loop(
    IF t.parent[z] /= NIL /\ t.parent[t.parent[z]] /= NIL
    THEN rotate([t EXCEPT !.color[t.parent[z]] = BLACK,
                          !.color[t.parent[t.parent[z]]] = RED,
                          !.rot_at = t.iter],
                t.parent[t.parent[z]], O)
    ELSE t,
    z)

\* Mutant of fi_case: the red-uncle branch goes round the loop without
\* recolouring and without moving z up.
fi_case_no_progress(t, z, S, O, y) ==
  IF y /= NIL /\ t.color[y] = RED
  THEN fix_insert_loop(t, z)
  ELSE fi_outer(fi_inner(t, z, S, O),
                IF z = t[O][t.parent[z]] THEN t.parent[z] ELSE z, O)

\* The body of one branch with the uncle y read (lines 132-145 / 147-160).
fi_case(t, z, S, O, y) ==
  IF y /= NIL /\ t.color[y] = RED
  THEN fix_insert_loop(fi_recolor(t, z, y), t.parent[t.parent[z]])
  ELSE fi_outer(fi_inner(t, z, S, O),
                IF z = t[O][t.parent[z]] THEN t.parent[z] ELSE z, O)

fi_branch(t, z, S) ==
  fi_case(t, z, S, other(S), t[other(S)][t.parent[t.parent[z]]])

fix_insert_loop(t, z) ==
  IF ~(z /= t.root /\ t.parent[z] /= NIL /\ t.color[t.parent[z]] = RED) THEN t
  ELSE IF t.iter >= MaxIter THEN cut(t)
  ELSE IF t.parent[t.parent[z]] = NIL THEN pass(t)
  ELSE fi_branch(pass(t), z, IF t.parent[z] = t.left[t.parent[t.parent[z]]]
                       THEN "left" ELSE "right")

\* Mutant of fi_root_black: the root is left as the loop left it.
fi_root_black_skipped(t) == t

\* Lines 162-163.
fi_root_black(t) ==
  IF t.root /= NIL THEN [t EXCEPT !.color[t.root] = BLACK] ELSE t

\* Mutant of fix_insert: the loop is skipped, only the root is coloured.
fix_insert_root_only(t, z) == fi_root_black(t)

fix_insert(t, z) == fi_root_black(fix_insert_loop(t, z))

\* Mutant of insert_descend: the comparison of the descent is reversed.
RECURSIVE insert_descend_reversed(_, _, _, _)
insert_descend_reversed(t, k, y, x) ==
  IF x /= NIL
  THEN insert_descend_reversed(t, k, x,
                               IF k < t.key[x] THEN t.right[x] ELSE t.left[x])
  ELSE y

\* Mutant of insert_descend: a key equal to the node's key descends to
\* the left.
RECURSIVE insert_descend_equal_left(_, _, _, _)
insert_descend_equal_left(t, k, y, x) ==
  IF x /= NIL
  THEN insert_descend_equal_left(t, k, x, IF k <= t.key[x] THEN t.left[x]
                                          ELSE t.right[x])
  ELSE y

RECURSIVE insert_descend(_, _, _, _)
insert_descend(t, k, y, x) ==
  IF x /= NIL
  THEN insert_descend(t, k, x, IF k < t.key[x] THEN t.left[x] ELSE t.right[x])
  ELSE y

\* Node(key): a fresh object; its identity is the least one not in use.
NewNode(t) == CHOOSE n \in Node \ t.nodes : \A m \in Node \ t.nodes : n <= m

\* Lines 97, 109-116: create z and hang it under y.
ins_attach(t, k, z, y) ==
  IF y = NIL
  THEN [t EXCEPT !.nodes = @ \cup {z}, !.key[z] = k, !.color[z] = RED,
                 !.left[z] = NIL, !.right[z] = NIL, !.parent[z] = y,
                 !.root = z, !.path = "insert"]
  ELSE IF k < t.key[y]
       THEN [t EXCEPT !.nodes = @ \cup {z}, !.key[z] = k, !.color[z] = RED,
                      !.left[z] = NIL, !.right[z] = NIL, !.parent[z] = y,
                      !.left[y] = z, !.path = "insert"]
       ELSE [t EXCEPT !.nodes = @ \cup {z}, !.key[z] = k, !.color[z] = RED,
                      !.left[z] = NIL, !.right[z] = NIL, !.parent[z] = y,
                      !.right[y] = z, !.path = "insert"]

ins_at(t, k, z) ==
  fix_insert(ins_attach(t, k, z, insert_descend(t, k, NIL, t.root)), z)

insert(t, k) == ins_at(t, k, NewNode(t))

\* ------------------------------------------------------------- deletion
RECURSIVE fix_delete_loop(_, _)

\* Lines 285-286, reached when the loop ends or breaks.
fd_end(t, x) ==
  IF x /= NIL THEN [t EXCEPT !.color[x] = BLACK, !.stopped = x] ELSE t

\* Lines 231-233 / 260-262: red sibling w.
fd_red_sibling(t, x, w, S) ==
  rotate([t EXCEPT !.color[w] = BLACK, !.color[t.parent[x]] = RED],
         t.parent[x], S)

\* Lines 243-246 / 272-275: far child of w black, rotate at w.
fd_near(t, w, S, O) ==
  rotate(IF t[S][w] /= NIL
         THEN [t EXCEPT !.color[t[S][w]] = BLACK, !.color[w] = RED]
         ELSE [t EXCEPT !.color[w] = RED],
         w, O)

\* Lines 249-252 / 278-281.
fd_take_color(t, x, w) ==
  [t EXCEPT !.color[w] = t.color[t.parent[x]], !.color[t.parent[x]] = BLACK]

fd_far_colors(t, x, O, w) ==
  fd_take_color(IF t[O][w] /= NIL THEN [t EXCEPT !.color[t[O][w]] = BLACK] ELSE t,
                x, w)

\* Line 254 / 283: x = self.root, then the loop test.
fd_root(t) == fix_delete_loop(t, t.root)

\* Lines 248-254 / 277-283.
fd_far(t, x, S, O, w) ==
  fd_root(IF w /= NIL
          THEN rotate(fd_far_colors(t, x, O, w), t.parent[x], S)
          ELSE t)

\* Line 247 / 276: w = x.parent.right (left) after the rotation at w.
fd_far_after(t, x, S, O) == fd_far(t, x, S, O, t[O][t.parent[x]])

\* Lines 235-254 / 264-283 with the sibling w settled.
fd_cases(t, x, S, O, w) ==
  IF w = NIL THEN fd_end(t, x)
  ELSE IF (t[S][w] = NIL \/ t.color[t[S][w]] = BLACK)
          /\ (t[O][w] = NIL \/ t.color[t[O][w]] = BLACK)
  THEN fix_delete_loop([t EXCEPT !.color[w] = RED], t.parent[x])
  ELSE IF t[O][w] = NIL \/ t.color[t[O][w]] = BLACK
  THEN fd_far_after(fd_near(t, w, S, O), x, S, O)
  ELSE fd_far(t, x, S, O, w)

\* Line 234 / 263: w re-read after the rotation at the parent.
fd_cases_after(t, x, S, O) == fd_cases(t, x, S, O, t[O][t.parent[x]])

\* Lines 227-234 / 256-263.
fd_sibling(t, x, S, O, w) ==
  IF w = NIL THEN fd_end(t, x)
  ELSE IF t.color[w] = RED
  THEN fd_cases_after(fd_red_sibling(t, x, w, S), x, S, O)
  ELSE fd_cases(t, x, S, O, w)

fd_branch(t, x, S) ==
  fd_sibling(t, x, S, other(S), t[other(S)][t.parent[x]])

fix_delete_loop(t, x) ==
  IF ~(x /= NIL /\ x /= t.root /\ t.color[x] = BLACK) THEN fd_end(t, x)
  ELSE IF t.iter >= MaxIter THEN cut(t)
  ELSE IF t.parent[x] = NIL THEN fd_end(pass(t), x)
  ELSE fd_branch(pass(t), x, IF x = t.left[t.parent[x]] THEN "left" ELSE "right")

fix_delete(t, x) == fix_delete_loop(t, x)

\* fix_delete_null: the side S and the sibling w are those of `par` under
\* par.parent, as the code reads them (line 300-301 / 331).
RECURSIVE fix_delete_null_loop(_, _)

\* Lines 305-307 / 335-337.
fdn_red_sibling(t, par, w, S) ==
  rotate([t EXCEPT !.color[w] = BLACK, !.color[t.parent[par]] = RED],
         t.parent[par], S)

\* Mutant of fdn_near: the rotation at w goes the wrong way.
fdn_near_wrong_way(t, w, S, O) ==
  rotate(IF t[S][w] /= NIL
         THEN [t EXCEPT !.color[t[S][w]] = BLACK, !.color[w] = RED]
         ELSE [t EXCEPT !.color[w] = RED],
         w, S)

\* Lines 317-320 / 347-350.
fdn_near(t, w, S, O) ==
  rotate(IF t[S][w] /= NIL
         THEN [t EXCEPT !.color[t[S][w]] = BLACK, !.color[w] = RED]
         ELSE [t EXCEPT !.color[w] = RED],
         w, O)

\* Lines 324-327 / 354-357.
fdn_take_color(t, par, w) ==
  [t EXCEPT !.color[w] = t.color[t.parent[par]], !.color[t.parent[par]] = BLACK]

fdn_far_colors(t, par, O, w) ==
  fdn_take_color(IF t[O][w] /= NIL THEN [t EXCEPT !.color[t[O][w]] = BLACK] ELSE t,
                 par, w)

\* Lines 323-329 / 353-359: the last case, then break.
fdn_far(t, par, S, O, w) ==
  IF w /= NIL /\ t.parent[par] /= NIL
  THEN rotate(fdn_far_colors(t, par, O, w), t.parent[par], S)
  ELSE t

\* Lines 321-322 / 351-352: w re-read only if par.parent is there.
fdn_far_after(t, par, S, O, w) ==
  fdn_far(t, par, S, O,
          IF t.parent[par] /= NIL THEN t[O][t.parent[par]] ELSE w)

\* Lines 309-329 / 339-359 with the sibling w settled.
fdn_cases(t, par, S, O, w) ==
  IF w = NIL THEN t
  ELSE IF (t[S][w] = NIL \/ t.color[t[S][w]] = BLACK)
          /\ (t[O][w] = NIL \/ t.color[t[O][w]] = BLACK)
  THEN fix_delete_null_loop([t EXCEPT !.color[w] = RED], t.parent[par])
  ELSE IF t[O][w] = NIL \/ t.color[t[O][w]] = BLACK
  THEN fdn_far_after(fdn_near(t, w, S, O), par, S, O, w)
  ELSE fdn_far(t, par, S, O, w)

\* Line 308 / 338.
fdn_cases_after(t, par, S, O) == fdn_cases(t, par, S, O, t[O][t.parent[par]])

\* Lines 301-308 / 331-338.
fdn_sibling(t, par, S, O, w) ==
  IF w = NIL THEN t
  ELSE IF t.color[w] = RED
  THEN fdn_cases_after(fdn_red_sibling(t, par, w, S), par, S, O)
  ELSE fdn_cases(t, par, S, O, w)

\* The value of `parent` at a loop test: the node the climb has reached.
\* Every way out of the loop leaves it as the last test saw it.
fdn_at(t, par) == [t EXCEPT !.stopped = par]

\* The sibling w that the first pass of the loop reads (line 301 / 331).
fdn_examine(t, w) == IF t.iter = 1 THEN [t EXCEPT !.examined = w] ELSE t

fdn_branch(t, par, S) ==
  fdn_sibling(fdn_examine(t, t[other(S)][t.parent[par]]), par, S, other(S),
              t[other(S)][t.parent[par]])

fix_delete_null_loop(t, par) ==
  IF ~(par /= NIL /\ par /= t.root) THEN fdn_at(t, par)
  ELSE IF t.iter >= MaxIter THEN cut(t)
  ELSE IF t.parent[par] = NIL THEN pass(fdn_at(t, par))
  ELSE fdn_branch(pass(fdn_at(t, par)), par, IF par = t.left[t.parent[par]]
                          THEN "left" ELSE "right")

fix_delete_null(t, par) == fix_delete_null_loop(t, par)

\* The spliced-out node y is referenced by nothing the method keeps: the
\* object is dropped and its identity becomes available again.
drop(t, y) ==
  [t EXCEPT !.nodes = @ \ {y}, !.key[y] = NIL, !.color[y] = RED,
            !.left[y] = NIL, !.right[y] = NIL, !.parent[y] = NIL]

\* Mutant of del_splice: the root reference is only replaced by a real x.
del_splice_keeps_root(t, y, x) ==
  IF t.parent[y] = NIL
  THEN IF x /= NIL THEN [t EXCEPT !.parent[x] = t.parent[y], !.root = x]
       ELSE t
  ELSE IF y = t.left[t.parent[y]]
       THEN IF x /= NIL
            THEN [t EXCEPT !.parent[x] = t.parent[y], !.left[t.parent[y]] = x]
            ELSE [t EXCEPT !.left[t.parent[y]] = x]
       ELSE IF x /= NIL
            THEN [t EXCEPT !.parent[x] = t.parent[y], !.right[t.parent[y]] = x]
            ELSE [t EXCEPT !.right[t.parent[y]] = x]

\* Lines 190-200: x takes y's place.
del_splice(t, y, x) ==
  IF t.parent[y] = NIL
  THEN IF x /= NIL THEN [t EXCEPT !.parent[x] = t.parent[y], !.root = x]
       ELSE [t EXCEPT !.root = x]
  ELSE IF y = t.left[t.parent[y]]
       THEN IF x /= NIL
            THEN [t EXCEPT !.parent[x] = t.parent[y], !.left[t.parent[y]] = x]
            ELSE [t EXCEPT !.left[t.parent[y]] = x]
       ELSE IF x /= NIL
            THEN [t EXCEPT !.parent[x] = t.parent[y], !.right[t.parent[y]] = x]
            ELSE [t EXCEPT !.right[t.parent[y]] = x]

\* Mutant of del_copy: the successor's key is not copied into z.
del_copy_skipped(t, z, y) ==
  IF y /= z THEN [t EXCEPT !.spliced = "successor"]
  ELSE [t EXCEPT !.spliced = "self"]

\* Lines 202-203.
del_copy(t, z, y) ==
  IF y /= z THEN [t EXCEPT !.key[z] = t.key[y], !.spliced = "successor"]
  ELSE [t EXCEPT !.spliced = "self"]

\* Mutant of del_repair: the repair runs whatever the colour of y.
del_repair_any_colour(t, y, x, x_parent) ==
  IF x /= NIL THEN fix_delete([t EXCEPT !.path = "fix_delete"], x)
  ELSE IF x_parent /= NIL
       THEN fix_delete_null([t EXCEPT !.path = "fix_delete_null"], x_parent)
       ELSE [t EXCEPT !.path = "emptied"]

\* Lines 205-209.  path records the branch: "red" (y is RED, no repair),
\* "fix_delete", "fix_delete_null", "emptied" (y BLACK, no x, no parent).
del_repair(t, y, x, x_parent) ==
  IF t.color[y] = BLACK
  THEN IF x /= NIL THEN fix_delete([t EXCEPT !.path = "fix_delete"], x)
       ELSE IF x_parent /= NIL
            THEN fix_delete_null([t EXCEPT !.path = "fix_delete_null"], x_parent)
            ELSE [t EXCEPT !.path = "emptied"]
  ELSE [t EXCEPT !.path = "red"]

\* The other child of y's parent, read before y is spliced out: the
\* sibling of the position that y leaves.
del_note_sibling(t, y) ==
  IF t.parent[y] = NIL THEN t
  ELSE [t EXCEPT !.hole_sibling = IF y = t.left[t.parent[y]]
                                  THEN t.right[t.parent[y]]
                                  ELSE t.left[t.parent[y]]]

del_x(t, z, y, x) ==
  drop(del_repair(del_copy(del_splice(del_note_sibling(t, y), y, x), z, y), y, x,
                  IF x /= NIL THEN NIL ELSE t.parent[y]),
       y)

\* Mutant of del_y: x is always y.right.
del_y_right_only(t, z, y) == del_x(t, z, y, t.right[y])

\* Lines 185-188.
del_y(t, z, y) == del_x(t, z, y, IF t.left[y] /= NIL THEN t.left[y] ELSE t.right[y])

\* Lines 173-183; path "absent" is the early return of line 174.
del_z(t, z) ==
  IF z = NIL THEN [t EXCEPT !.path = "absent"]
  ELSE del_y(t, z, IF t.left[z] = NIL \/ t.right[z] = NIL
                   THEN z ELSE successor(t, z))

delete(t, k) == del_z(t, search(t, k))

remove(t, k) == delete(t, k)

\* ------------------------------------------------- the line-command driver
\* The characters of the tokens modelled, and the value of each digit.
DigitVal ==
  [c \in {"0", "1", "2", "3", "4", "5", "6", "7", "8", "9"} |->
     CASE c = "0" -> 0 [] c = "1" -> 1 [] c = "2" -> 2 [] c = "3" -> 3
       [] c = "4" -> 4 [] c = "5" -> 5 [] c = "6" -> 6 [] c = "7" -> 7
       [] c = "8" -> 8 [] c = "9" -> 9]

\* Whether int(w) returns for the token w, a sequence of characters: over
\* the characters modelled (digits and letters) it does when w is a
\* non-empty run of digits and raises ValueError otherwise.
IsInt(w) == Len(w) > 0 /\ \A i \in 1..Len(w) : w[i] \in DOMAIN DigitVal

RECURSIVE IntOf(_)
\* int(w) of a run of digits.
IntOf(w) ==
  IF w = <<>> THEN 0
  ELSE 10 * IntOf(SubSeq(w, 1, Len(w) - 1)) + DigitVal[w[Len(w)]]

\* The decimal token of the key k.
KeyWord(k) == <<CHOOSE c \in DOMAIN DigitVal : DigitVal[c] = k>>

\* The tokens tried: every key, and tokens that are not integers.
Words ==
  {KeyWord(k) : k \in 1..MaxDriverKey} \cup {<<"a", "b", "c">>, <<"x">>, <<"1", "x">>}

\* The command words tried ("frobnicate" stands for any unknown command).
Commands ==
  {"exit", "insert", "delete", "sort", "search", "min", "max", "successor",
   "predecessor", "height", "tree", "frobnicate"}

\* The command lines tried, stripped and split: the empty line, and each
\* command with no argument or one.
Lines ==
  {[cmd |-> "", args |-> <<>>]} \cup
  {[cmd |-> c, args |-> a] : c \in Commands,
                             a \in {<<>>} \cup {<<w>> : w \in Words}}

\* The input files tried: a missing one, and every file of at most
\* MaxFileLen tokens.
Files ==
  {[exists |-> FALSE, words |-> <<>>]} \cup
  {[exists |-> TRUE, words |-> ws] :
     ws \in UNION {[1..n -> Words] : n \in 0..MaxFileLen}}

\* print(...): the text of the last report.
say(t, text) == [t EXCEPT !.report = text]

\* tree.insert(k) from the driver, with the count of keys given.
drv_insert(t, k) == [insert(t, k) EXCEPT !.held[k] = @ + 1]

\* Line 15: whether list(map(int, ...)) returns, every token converted.
all_int(ws) == \A i \in 1..Len(ws) : IsInt(ws[i])

RECURSIVE insert_all(_, _, _)
\* Lines 16-17: the tokens from the i-th on are inserted in order.
insert_all(t, ws, i) ==
  IF i > Len(ws) THEN t
  ELSE insert_all(drv_insert(t, IntOf(ws[i])), ws, i + 1)

RECURSIVE load_numbers_streaming(_, _)
\* Mutant of load_numbers: each token is inserted as soon as it converts.
load_numbers_streaming(t, ws) ==
  IF ws = <<>> THEN say(t, "Loaded values from input.txt")
  ELSE IF ~IsInt(Head(ws))
  THEN say(t, "Invalid data in input file. Starting with empty tree.")
  ELSE load_numbers_streaming(drv_insert(t, IntOf(Head(ws))), Tail(ws))

\* Lines 15-20 and 24-25: the file's tokens are all converted, then all
\* inserted; one that does not convert leaves the tree as it was built.
load_numbers(t, ws) ==
  IF all_int(ws)
  THEN say(insert_all(t, ws, 1), "Loaded values from input.txt")
  ELSE say(t, "Invalid data in input file. Starting with empty tree.")

\* Lines 13-27: the file is loaded and the command loop entered.
load_file(t, f) ==
  IF f.exists THEN [load_numbers(t, f.words) EXCEPT !.mode = "loop"]
  ELSE [say(t, "File not found. Starting with empty tree.")
          EXCEPT !.mode = "loop"]

\* Lines 104-105: an exception of the tree's own is reported; nothing else
\* changes what the command printed.
drv_outcome(t, text) == IF t.raised THEN say(t, "Error") ELSE say(t, text)

\* Lines 43-46.
cmd_insert(t, k) == drv_outcome(drv_insert(t, k), "Inserted")

\* Lines 54-56: the count of keys given falls when the call returns.
drv_remove(t, k) ==
  IF remove(t, k).raised THEN remove(t, k)
  ELSE [remove(t, k) EXCEPT !.held[k] = @ - 1]

\* Lines 51-58.
cmd_delete(t, k) ==
  IF search(t, k) /= NIL THEN drv_outcome(drv_remove(t, k), "Deleted")
  ELSE say(t, "Key not found in tree")

\* Lines 69-74.
cmd_search(t, k) ==
  IF search(t, k) /= NIL THEN say(t, "Node found")
  ELSE say(t, "Node does not exist")

\* Lines 41-92, a command that takes a key, with the key converted.
cmd_keyed(t, c, k) ==
  CASE c = "insert" -> cmd_insert(t, k)
    [] c = "delete" -> cmd_delete(t, k)
    [] c = "search" -> cmd_search(t, k)
    [] c = "successor" -> say(t, find_successor(t, k)[1])
    [] c = "predecessor" -> say(t, find_predecessor(t, k)[1])

\* Lines 42-43, 47-48 (and the like of the other keyed commands), 99-100:
\* without an argument the usage is printed; int() of the first argument
\* raises ValueError, caught at line 99, or gives the key.
cmd_arg(t, c, a) ==
  IF Len(a) = 0 THEN say(t, "Usage")
  ELSE IF IsInt(a[1]) THEN cmd_keyed(t, c, IntOf(a[1]))
  ELSE say(t, "Invalid input. Please enter valid numbers.")

KeyedCommands == {"insert", "delete", "search", "successor", "predecessor"}

\* Lines 31-98: one command line l.
run_command(t, l) ==
  CASE l.cmd = "" -> t
    [] l.cmd = "exit" -> [say(t, "Goodbye!") EXCEPT !.mode = "exit"]
    [] l.cmd \in KeyedCommands -> cmd_arg(t, l.cmd, l.args)
    [] l.cmd = "sort" ->
         IF t.root = NIL THEN say(t, "Tree is empty")
         ELSE say(t, "In-order traversal (sorted):")
    [] l.cmd = "min" -> say(t, find_min_value(t)[1])
    [] l.cmd = "max" -> say(t, find_max_value(t)[1])
    [] l.cmd = "height" -> say(t, "Tree height")
    [] l.cmd = "tree" -> say(t, "Tree structure")
    [] OTHER -> say(t, "Invalid command!")

\* ------------------------------------------------------- the binomial heap
\* sys.maxsize and -sys.maxsize - 1 at the width of the checker's integers:
\* above and below every key tried.
INT_MAX == 2147483647
INT_MIN == -INT_MAX - 1

\* The BinomialNode objects, and the two BinomialHeap objects followed: the
\* heap operated on and the one united with it.
HNode == 1..MaxHeapNodes
HeapNames == {"self", "other"}
HeapKeys == 0..MaxHeapKey

\* Two heaps just constructed and no node: head of each heap; key, degree,
\* parent, child and sibling of each node; the number of nodes made; the
\* value a method returns (ret) .
EmptyHeaps ==
  [head |-> [h \in HeapNames |-> NIL],
   key |-> [n \in HNode |-> NIL],
   degree |-> [n \in HNode |-> 0],
   parent |-> [n \in HNode |-> NIL],
   child |-> [n \in HNode |-> NIL],
   sibling |-> [n \in HNode |-> NIL],
   made |-> 0,
   ret |-> NIL]

returning(b, v) == [b EXCEPT !.ret = v]

\* _link_trees(y, z).
link_trees(b, y, z) ==
  [b EXCEPT !.parent[y] = z, !.sibling[y] = b.child[z], !.child[z] = y,
            !.degree[z] = @ + 1]

RECURSIVE merge_loop(_, _, _, _)
\* Lines 64-77: the rest of both lists is appended after curr by degree.
merge_loop(b, curr, h1, h2) ==
  IF h1 /= NIL /\ h2 /= NIL
  THEN IF b.degree[h1] <= b.degree[h2]
       THEN merge_loop([b EXCEPT !.sibling[curr] = h1], h1, b.sibling[h1], h2)
       ELSE merge_loop([b EXCEPT !.sibling[curr] = h2], h2, h1, b.sibling[h2])
  ELSE IF h1 /= NIL THEN [b EXCEPT !.sibling[curr] = h1]
  ELSE [b EXCEPT !.sibling[curr] = h2]

\* _merge_root_lists(h1, h2): returns the first root of the merged list.
merge_root_lists(b, h1, h2) ==
  IF h1 = NIL THEN returning(b, h2)
  ELSE IF h2 = NIL THEN returning(b, h1)
  ELSE IF b.degree[h1] <= b.degree[h2]
  THEN returning(merge_loop(b, h1, b.sibling[h1], h2), h1)
  ELSE returning(merge_loop(b, h2, h1, b.sibling[h2]), h2)

\* Mutant of cons_smaller_first: the roots are linked whatever their keys.
cons_smaller_first_any(b, curr, next_node) == TRUE

\* Line 97: whether next_node is linked under curr.
cons_smaller_first(b, curr, next_node) == b.key[curr] <= b.key[next_node]

\* Lines 102-105: next_node takes curr's place in the root list.
cons_replace(b, prev, next_node) ==
  IF prev = NIL THEN b ELSE [b EXCEPT !.sibling[prev] = next_node]

RECURSIVE cons_loop(_, _, _, _, _)
\* Line 109, and the loop again.
cons_next(b, head, prev, curr) ==
  cons_loop(b, head, prev, curr, b.sibling[curr])

\* Lines 90-111.
cons_loop(b, head, prev, curr, next_node) ==
  IF next_node = NIL THEN returning(b, head)
  ELSE IF \/ b.degree[curr] /= b.degree[next_node]
          \/ /\ b.sibling[next_node] /= NIL
             /\ b.degree[b.sibling[next_node]] = b.degree[curr]
  THEN cons_next(b, head, curr, next_node)
  ELSE IF cons_smaller_first(b, curr, next_node)
  THEN cons_next(link_trees([b EXCEPT !.sibling[curr] =
                               b.sibling[next_node]], next_node, curr),
                 head, prev, curr)
  ELSE cons_next(link_trees(cons_replace(b, prev, next_node), curr,
                            next_node),
                 IF prev = NIL THEN next_node ELSE head, prev, next_node)

\* _consolidate(head): returns the first root.
consolidate(b, head) ==
  IF head = NIL THEN returning(b, NIL)
  ELSE cons_loop(b, head, NIL, head, b.sibling[head])

\* self.head = self._consolidate(self.head) on the list just merged, in the
\* heap h.
set_head(b, h) == [b EXCEPT !.head[h] = b.ret]

rehead(b, h) == set_head(consolidate(b, b.ret), h)

\* BinomialNode(key): the next node object.
new_node(b, k) ==
  [b EXCEPT !.made = @ + 1, !.key[b.made + 1] = k, !.degree[b.made + 1] = 0,
            !.parent[b.made + 1] = NIL, !.child[b.made + 1] = NIL,
            !.sibling[b.made + 1] = NIL]

\* insert(key) on the heap h: returns the new node.
bh_insert(b, h, k) ==
  returning(rehead(merge_root_lists(new_node(b, k), b.head[h], b.made + 1),
                   h),
            b.made + 1)

RECURSIVE fm_scan(_, _, _)
\* Lines 132-137.
fm_scan(b, min_node, curr) ==
  IF curr = NIL THEN min_node
  ELSE IF b.key[curr] < b.key[min_node] THEN fm_scan(b, curr, b.sibling[curr])
  ELSE fm_scan(b, min_node, b.sibling[curr])

\* find_min() on the heap h: the node returned.
bh_find_min(b, h) ==
  IF b.head[h] = NIL THEN NIL
  ELSE fm_scan(b, b.head[h], b.sibling[b.head[h]])

RECURSIVE em_scan(_, _, _, _)
\* Lines 150-155: the minimum root and the root before it.
em_scan(b, min_node, min_prev, curr) ==
  IF b.sibling[curr] = NIL THEN <<min_node, min_prev>>
  ELSE IF b.key[b.sibling[curr]] < b.key[min_node]
  THEN em_scan(b, b.sibling[curr], curr, b.sibling[curr])
  ELSE em_scan(b, min_node, min_prev, b.sibling[curr])

\* Lines 158-161.
em_unlink(b, h, min_node, min_prev) ==
  IF min_node = b.head[h] THEN [b EXCEPT !.head[h] = b.sibling[min_node]]
  ELSE [b EXCEPT !.sibling[min_prev] = b.sibling[min_node]]

RECURSIVE em_reverse(_, _, _)
\* Lines 167-172: returns the head of the reversed list of children.
em_reverse(b, child, new_head) ==
  IF child = NIL THEN returning(b, new_head)
  ELSE em_reverse([b EXCEPT !.sibling[child] = new_head,
                            !.parent[child] = NIL],
                  b.sibling[child], child)

\* Lines 175-176 on the reversed list returned.
em_merge(b, h) == rehead(merge_root_lists(b, b.head[h], b.ret), h)

\* Lines 157-178 with the minimum root found.
em_remove(b, h, found) ==
  returning(em_merge(em_reverse(em_unlink(b, h, found[1], found[2]),
                                b.child[found[1]], NIL), h),
            b.key[found[1]])

\* extract_min() on the heap h: returns the key extracted.
extract_min(b, h) ==
  IF b.head[h] = NIL THEN returning(b, INT_MAX)
  ELSE em_remove(b, h, em_scan(b, b.head[h], NIL, b.head[h]))

\* The other of the two heaps.
OtherHeap(h) == IF h = "self" THEN "other" ELSE "self"

\* union_heaps(other) on the heap h: returns the head.
union_heaps(b, h, o) ==
  [rehead(merge_root_lists(b, b.head[h], b.head[o]), h)
     EXCEPT !.head[o] = NIL]

RECURSIVE dk_bubble(_, _)
\* Lines 197-201: keys are swapped upwards while the child's is smaller.
dk_bubble(b, curr) ==
  IF b.parent[curr] /= NIL /\ b.key[curr] < b.key[b.parent[curr]]
  THEN dk_bubble([b EXCEPT !.key[curr] = b.key[b.parent[curr]],
                           !.key[b.parent[curr]] = b.key[curr]],
                 b.parent[curr])
  ELSE b

\* decrease_key(node, new_key): returns the node, or None.
decrease_key(b, node, new_key) ==
  IF node = NIL \/ new_key > b.key[node] THEN returning(b, NIL)
  ELSE returning(dk_bubble([b EXCEPT !.key[node] = new_key], node), node)

\* delete_node(node) on the heap h: returns what extract_min returns.
delete_node(b, h, node) ==
  IF node = NIL THEN returning(b, INT_MAX)
  ELSE extract_min(decrease_key(b, node, INT_MIN), h)

RECURSIVE NodesFrom(_, _, _)
\* The nodes reached from n over child and sibling links (d bounds the
\* descent), as _node_in_heap visits them.
NodesFrom(b, n, d) ==
  IF n = NIL \/ d = 0 THEN {}
  ELSE {n} \cup NodesFrom(b, b.child[n], d - 1)
           \cup NodesFrom(b, b.sibling[n], d - 1)

\* The nodes in the heap h.
NodesIn(b, h) == NodesFrom(b, b.head[h], MaxHeapNodes)

\* How many nodes in the heap h hold the key k.
Holding(b, h, k) == Cardinality({n \in NodesIn(b, h) : b.key[n] = k})

\* The smallest key in the non-empty heap h.
Smallest(b, h) ==
  CHOOSE k \in {b.key[n] : n \in NodesIn(b, h)} :
    \A n \in NodesIn(b, h) : k <= b.key[n]

\* ------------------------------------------- the binomial heap's interface
\* The InteractiveBinomialHeap object: its heap (with the second heap that
\* union builds), node_map, next_node_id, and what the command printed.
Cli ==
  [heap |-> bheap, node_map |-> node_map, next_node_id |-> next_node_id,
   report |-> "none"]

printed(c, text) == [c EXCEPT !.report = text]

\* The node_map m without the Node ID i.
Without(m, i) == [j \in DOMAIN m \ {i} |-> m[j]]

\* make_heap().
make_heap(c) ==
  [c EXCEPT !.heap.head["self"] = NIL, !.node_map = [i \in {} |-> NIL],
            !.next_node_id = 0, !.report = "New empty heap created!"]

\* insert() with the integer k entered.
cli_insert(c, k) ==
  [c EXCEPT !.heap = bh_insert(c.heap, "self", k),
            !.node_map = [i \in DOMAIN c.node_map \cup {c.next_node_id} |->
                            IF i = c.next_node_id THEN c.heap.made + 1
                            ELSE c.node_map[i]],
            !.next_node_id = @ + 1,
            !.report = "Inserted key"]

\* _node_in_heap(target_node).
node_in_heap(b, target_node) == target_node \in NodesIn(b, "self")

\* The entries of the node_map m whose nodes are in the heap b.
valid_nodes(b, m) ==
  [j \in {i \in DOMAIN m : node_in_heap(b, m[i])} |-> m[j]]

\* find_min().
cli_find_min(c) ==
  IF bh_find_min(c.heap, "self") = NIL THEN printed(c, "Heap is empty!")
  ELSE printed(c, "Minimum key in heap")

\* Lines 58-76 with the heap after extract_min.
cli_extracted(c, b) ==
  IF b.ret = INT_MAX THEN printed([c EXCEPT !.heap = b], "Heap is empty!")
  ELSE [c EXCEPT !.heap = b, !.node_map = valid_nodes(b, c.node_map),
                 !.report = "Extracted minimum"]

\* extract_min().
cli_extract_min(c) ==
  IF c.heap.head["self"] = NIL THEN printed(c, "Heap is empty!")
  ELSE cli_extracted(c, extract_min(c.heap, "self"))

RECURSIVE insert_keys(_, _, _)
\* Lines 115-117: the keys ks are inserted into the heap h in order.
insert_keys(b, h, ks) ==
  IF ks = <<>> THEN b ELSE insert_keys(bh_insert(b, h, Head(ks)), h, Tail(ks))

\* union() with the integers ks entered as the second heap's keys.
cli_union(c, ks) ==
  [c EXCEPT !.heap = union_heaps(insert_keys(c.heap, "other", ks), "self",
                                 "other"),
            !.report = "Heaps successfully unioned!"]

\* show_nodes(): the stale entries are dropped.
show_nodes(c) ==
  IF DOMAIN c.node_map = {} THEN printed(c, "No tracked nodes in heap!")
  ELSE IF DOMAIN valid_nodes(c.heap, c.node_map) = {}
  THEN [c EXCEPT !.node_map = valid_nodes(c.heap, c.node_map),
                 !.report = "No tracked nodes in heap!"]
  ELSE [c EXCEPT !.node_map = valid_nodes(c.heap, c.node_map),
                 !.report = "Tracked nodes:"]

\* Lines 159-163 with the heap after decrease_key.
dk_report(c, b) ==
  IF b.ret = NIL THEN printed([c EXCEPT !.heap = b],
                              "Decrease key operation failed!")
  ELSE printed([c EXCEPT !.heap = b], "Successfully decreased node")

\* Lines 140-163 with the list shown.
dk_asked(c, node_id, new_key) ==
  IF node_id \notin DOMAIN c.node_map THEN printed(c, "Invalid Node ID!")
  ELSE IF ~node_in_heap(c.heap, c.node_map[node_id])
  THEN [c EXCEPT !.node_map = Without(@, node_id),
                 !.report = "Node ID is no longer in the heap!"]
  ELSE IF new_key > c.heap.key[c.node_map[node_id]]
  THEN printed(c, "New key must be <= current key")
  ELSE dk_report(c, decrease_key(c.heap, c.node_map[node_id], new_key))

\* decrease_key() with the integers node_id and new_key entered.
cli_decrease_key(c, node_id, new_key) ==
  IF DOMAIN c.node_map = {} THEN printed(c, "No tracked nodes in heap!")
  ELSE dk_asked(show_nodes(c), node_id, new_key)

\* Lines 189-195 with the heap after delete_node.
del_report(c, node_id, b) ==
  IF b.ret = INT_MAX
  THEN printed([c EXCEPT !.heap = b], "Delete operation failed!")
  ELSE [c EXCEPT !.heap = b, !.node_map = Without(@, node_id),
                 !.report = "Successfully deleted node"]

\* Lines 176-195 with the list shown.
del_asked(c, node_id) ==
  IF node_id \notin DOMAIN c.node_map THEN printed(c, "Invalid Node ID!")
  ELSE IF ~node_in_heap(c.heap, c.node_map[node_id])
  THEN [c EXCEPT !.node_map = Without(@, node_id),
                 !.report = "Node ID is no longer in the heap!"]
  ELSE del_report(c, node_id,
                  delete_node(c.heap, "self", c.node_map[node_id]))

\* delete() with the integer node_id entered.
cli_delete(c, node_id) ==
  IF DOMAIN c.node_map = {} THEN printed(c, "No tracked nodes in heap!")
  ELSE del_asked(show_nodes(c), node_id)

\* ------------------------------------------------------------ the skip list
\* The Node objects: one per key and level, one head per level.
SNode == 1..((MaxSkipKey + 1) * (MaxFlips + 1))
SkipKeys == 1..MaxSkipKey

\* SkipList(): the head of level 0 is the node 1; key, isHead, right,
\* left, up and down of each node; head0, headh and level; the nodes in
\* use; the outcomes of the coin flips to come.
EmptySkip ==
  [key |-> [n \in SNode |-> 0],
   isHead |-> [n \in SNode |-> n = 1],
   right |-> [n \in SNode |-> NIL],
   left |-> [n \in SNode |-> NIL],
   up |-> [n \in SNode |-> NIL],
   down |-> [n \in SNode |-> NIL],
   head0 |-> 1, headh |-> 1, level |-> 0,
   used |-> {1},
   coins |-> <<>>]

\* flip_coin(): the next outcome; heads at most as often as outcomes are
\* given.
flip_coin(s) == s.coins /= <<>> /\ Head(s.coins)

\* The coins after a flip.
flipped(s) == [s EXCEPT !.coins = IF @ = <<>> THEN @ ELSE Tail(@)]

RECURSIVE sl_find_from(_, _, _)
\* Lines 48-56.
sl_find_from(s, tmp, k) ==
  IF s.right[tmp] /= NIL /\ s.key[s.right[tmp]] <= k
  THEN sl_find_from(s, s.right[tmp], k)
  ELSE IF s.down[tmp] /= NIL THEN sl_find_from(s, s.down[tmp], k)
  ELSE tmp

\* find(key): the node returned.
sl_find(s, k) == sl_find_from(s, s.headh, k)

\* The next Node object.
fresh(s) == CHOOSE n \in SNode \ s.used : \A m \in SNode \ s.used : n <= m

\* Node(key, is_head) as the node n.
create(s, n, k, is_head) ==
  [s EXCEPT !.used = @ \cup {n}, !.key[n] = k, !.isHead[n] = is_head,
            !.right[n] = NIL, !.left[n] = NIL, !.up[n] = NIL,
            !.down[n] = NIL]

RECURSIVE inl_leftone(_, _)
\* Lines 77-78.
inl_leftone(s, leftone) ==
  IF leftone /= NIL /\ ~s.isHead[leftone] /\ s.up[leftone] = NIL
  THEN inl_leftone(s, s.left[leftone])
  ELSE leftone

\* Lines 84-90 with the new head made.
inl_new_head(s, leftone, newnode, newhead) ==
  [s EXCEPT !.up[leftone] = newhead, !.down[newhead] = leftone,
            !.right[newhead] = newnode, !.left[newnode] = newhead,
            !.headh = newhead, !.level = @ + 1]

\* n.left = v unless n is None.
set_left(s, n, v) == IF n = NIL THEN s ELSE [s EXCEPT !.left[n] = v]

\* n.right = v unless n is None.
set_right(s, n, v) == IF n = NIL THEN s ELSE [s EXCEPT !.right[n] = v]

\* Lines 93-97 after the node before: newnode is linked in behind it.
link_after(s, before, newnode) ==
  set_left(set_left([s EXCEPT !.right[newnode] = s.right[before],
                              !.right[before] = newnode],
                    s.right[before], newnode),
           newnode, before)

\* Mutant of inl_splice: the new node goes in front of its level.
inl_splice_first(s, above, newnode) == link_after(s, s.headh, newnode)

\* Lines 92-97 with above, the node over leftone.
inl_splice(s, above, newnode) == link_after(s, above, newnode)

\* Lines 83-97.
inl_link(s, leftone, newnode) ==
  IF s.isHead[leftone] /\ s.up[leftone] = NIL
  THEN inl_new_head(create(s, fresh(s), 0, TRUE), leftone, newnode, fresh(s))
  ELSE inl_splice(s, s.up[leftone], newnode)

RECURSIVE insert_new_level(_, _)
\* Lines 99-100.
inl_flip(s, newnode) ==
  IF flip_coin(s) THEN insert_new_level(flipped(s), newnode) ELSE flipped(s)

\* Lines 76-100 with the new node made.
inl_made(s, tmp, newnode) ==
  IF inl_leftone(s, s.left[tmp]) = NIL THEN s
  ELSE inl_flip(inl_link(s, inl_leftone(s, s.left[tmp]), newnode), newnode)

\* _insert_new_level(tmp).
insert_new_level(s, tmp) ==
  inl_made([create(s, fresh(s), s.key[tmp], FALSE)
              EXCEPT !.up[tmp] = fresh(s), !.down[fresh(s)] = tmp],
           tmp, fresh(s))

\* Lines 113-117.
sl_link(s, tmp, newnode) ==
  set_left([s EXCEPT !.left[newnode] = tmp,
                     !.right[newnode] = s.right[tmp],
                     !.right[tmp] = newnode],
           s.right[tmp], newnode)

\* Lines 112-120 with the new node made.
sl_insert_made(s, tmp, newnode) ==
  inl_flip(sl_link(s, tmp, newnode), newnode)

\* Lines 104-120 with the node found.
sl_insert_at(s, tmp, k) ==
  IF tmp = NIL THEN s
  ELSE IF ~s.isHead[tmp] /\ s.key[tmp] = k THEN s
  ELSE sl_insert_made(create(s, fresh(s), k, FALSE), tmp, fresh(s))

\* insert(key).
sl_insert(s, k) == sl_insert_at(s, sl_find(s, k), k)

RECURSIVE check_head_from(_, _)
\* Lines 126-132.
check_head_from(s, tmp) ==
  IF tmp /= NIL /\ s.right[tmp] = NIL /\ s.down[tmp] /= NIL
  THEN check_head_from([s EXCEPT !.up[s.down[tmp]] = NIL, !.down[tmp] = NIL,
                                 !.level = @ - 1],
                       s.down[tmp])
  ELSE [s EXCEPT !.headh = tmp]

\* _check_head().
check_head(s) == check_head_from(s, s.headh)

\* Lines 143-146.
sl_bypass(s, tmp) ==
  set_left(set_right(s, s.left[tmp], s.right[tmp]), s.right[tmp],
           s.left[tmp])

RECURSIVE sl_unlink(_, _)
\* Lines 141-148.
sl_unlink(s, tmp) ==
  IF tmp = NIL THEN s
  ELSE sl_unlink([sl_bypass(s, tmp) EXCEPT !.left[tmp] = NIL,
                                           !.right[tmp] = NIL,
                                           !.up[tmp] = NIL,
                                           !.down[tmp] = NIL],
                 s.up[tmp])

\* Lines 136-150 with the node found.
sl_delete_at(s, tmp, k) ==
  IF tmp = NIL \/ s.isHead[tmp] \/ s.key[tmp] /= k THEN s
  ELSE check_head(sl_unlink(s, tmp))

\* delete(key).
sl_delete(s, k) == sl_delete_at(s, sl_find(s, k), k)

RECURSIVE RowFrom(_, _, _)
\* The nodes right of n, in order (d bounds the walk).
RowFrom(s, n, d) ==
  IF s.right[n] = NIL \/ d = 0 THEN <<>>
  ELSE <<s.right[n]>> \o RowFrom(s, s.right[n], d - 1)

RECURSIVE HeadsFrom(_, _, _)
\* The heads from h down, in order (d bounds the walk).
HeadsFrom(s, h, d) ==
  IF h = NIL \/ d = 0 THEN <<>>
  ELSE <<h>> \o HeadsFrom(s, s.down[h], d - 1)

\* The heads from the top level down, as print_list visits them.
Heads(s) == HeadsFrom(s, s.headh, MaxFlips + 2)

\* The nodes of the level whose head is h, in order.
Row(s, h) == RowFrom(s, h, MaxSkipKey + 1)

\* The keys of the nodes ns, in order.
KeysAt(s, ns) == [i \in DOMAIN ns |-> s.key[ns[i]]]

\* The keys of the level whose head is h, as print_list prints them.
RowKeys(s, h) == KeysAt(s, Row(s, h))

\* The i-th level of the levels with the heads hs, 0 the bottom level.
LevelOf(s, hs, i) == RowKeys(s, hs[Len(hs) - i])

\* Level i of the list (0 the bottom level): its keys in order.
LevelKeys(s, i) == LevelOf(s, Heads(s), i)

\* The members of the sequence ns.
Members(ns) == {ns[i] : i \in DOMAIN ns}

RECURSIVE LevelsUp(_, _, _)
\* The nodes of the lowest i of the levels with the heads hs, level by
\* level from the bottom, each level's head first.
LevelsUp(s, hs, i) ==
  IF i = 0 THEN <<>>
  ELSE LevelsUp(s, hs, i - 1) \o <<hs[Len(hs) + 1 - i]>>
         \o Row(s, hs[Len(hs) + 1 - i])

\* The place of the node n in the sequence ns of the list's nodes.
Place(ns, n) == IF n = NIL THEN NIL ELSE CHOOSE i \in DOMAIN ns : ns[i] = n

\* The list s with its nodes, in the order ns, named by their places: the
\* program never observes which object a node is, only how nodes are
\* linked, and a node the list reaches no more is free again.
Named(s, ns) ==
  [key |-> [n \in SNode |-> IF n <= Len(ns) THEN s.key[ns[n]] ELSE 0],
   isHead |-> [n \in SNode |-> IF n <= Len(ns) THEN s.isHead[ns[n]]
                               ELSE FALSE],
   right |-> [n \in SNode |-> IF n <= Len(ns) THEN Place(ns, s.right[ns[n]])
                              ELSE NIL],
   left |-> [n \in SNode |-> IF n <= Len(ns) THEN Place(ns, s.left[ns[n]])
                             ELSE NIL],
   up |-> [n \in SNode |-> IF n <= Len(ns) THEN Place(ns, s.up[ns[n]])
                           ELSE NIL],
   down |-> [n \in SNode |-> IF n <= Len(ns) THEN Place(ns, s.down[ns[n]])
                             ELSE NIL],
   head0 |-> Place(ns, s.head0), headh |-> Place(ns, s.headh),
   level |-> s.level,
   used |-> 1..Len(ns),
   coins |-> <<>>]

\* The list s as a state.
Swept(s) == Named(s, LevelsUp(s, Heads(s), Len(Heads(s))))

\* ------------------------------------------------------------- observers
RECURSIVE InOrder(_, _, _)
\* in_order_traversal: the keys in visiting order (d bounds the descent so
\* that the operator is defined on any heap).
InOrder(t, n, d) ==
  IF n = NIL \/ d = 0 THEN <<>>
  ELSE InOrder(t, t.left[n], d - 1) \o <<t.key[n]>> \o InOrder(t, t.right[n], d - 1)

in_order_traversal(t) == InOrder(t, t.root, MaxDepth)

\* How many times k occurs in the sequence s.
Occurrences(s, k) == Cardinality({i \in DOMAIN s : s[i] = k})

\* How many times k occurs among the keys visited.
Count(t, k) == Occurrences(in_order_traversal(t), k)

\* The multiset of keys held, as the number of occurrences of each key.
KeysOf(s) == [k \in Keys |-> Occurrences(s, k)]

KeyCount(t) == KeysOf(in_order_traversal(t))

Size(t) == Len(in_order_traversal(t))

\* The tree as a value: key, colour and the two subtrees of every node.
RECURSIVE Shape(_, _, _)
Shape(t, n, d) ==
  IF n = NIL \/ d = 0 THEN <<>>
  ELSE <<t.key[n], t.color[n], Shape(t, t.left[n], d - 1),
         Shape(t, t.right[n], d - 1)>>

\* Black nodes on every path from n down to an absent child, -1 if two
\* paths differ.
RECURSIVE BlackHeight(_, _, _)
BlackHeight(t, n, d) ==
  IF n = NIL \/ d = 0 THEN 0
  ELSE LET l == BlackHeight(t, t.left[n], d - 1)
           r == BlackHeight(t, t.right[n], d - 1)
       IN IF l < 0 \/ r < 0 \/ l /= r THEN -1
          ELSE l + (IF t.color[n] = BLACK THEN 1 ELSE 0)

\* The insert calls made minus the delete calls that found their key.
RECURSIVE HeldIn(_)
HeldIn(S) ==
  IF S = {} THEN 0
  ELSE held[CHOOSE k \in S : TRUE] + HeldIn(S \ {CHOOSE k \in S : TRUE})

\* The sorted-array model of the keys held: the keys present, those above
\* and below k, and the least and the greatest element of a set of keys.
Present == {k \in AllKeys : held[k] > 0}

Above(k) == {j \in Present : j > k}

Below(k) == {j \in Present : j < k}

Least(S) == CHOOSE j \in S : \A i \in S : j <= i

Greatest(S) == CHOOSE j \in S : \A i \in S : i <= j

\* On the way from node c up to the root, every node holding key k is
\* left through its right link: c is in the right subtree of each of them.
RECURSIVE RightOfEquals(_, _, _, _)
RightOfEquals(t, c, k, d) ==
  IF t.parent[c] = NIL \/ d = 0 THEN TRUE
  ELSE /\ t.key[t.parent[c]] = k => c = t.right[t.parent[c]]
       /\ RightOfEquals(t, t.parent[c], k, d - 1)

\* The tree as insert(k) has it between attaching the new node and the
\* call of fix_insert (line 116 reached, line 118 not yet).
Attached(t, k) ==
  ins_attach(t, k, NewNode(t), insert_descend(t, k, NIL, t.root))

\* The loops of search, find_min, find_max and insert's descent follow
\* child links: from n they reach None within d steps on every way down.
RECURSIVE DescentEnds(_, _, _)
DescentEnds(t, n, d) ==
  n = NIL \/ (d > 0 /\ DescentEnds(t, t.left[n], d - 1)
                    /\ DescentEnds(t, t.right[n], d - 1))

\* The loops of successor and predecessor follow parent links: from n
\* they reach None within d steps.
RECURSIVE ClimbEnds(_, _, _)
ClimbEnds(t, n, d) == n = NIL \/ (d > 0 /\ ClimbEnds(t, t.parent[n], d - 1))

\* The locals of delete(k) on the tree t: z (line 173), y (lines 180-183)
\* and x (lines 185-188).
DelZ(t, k) == search(t, k)

DelY(t, k) ==
  IF t.left[DelZ(t, k)] = NIL \/ t.right[DelZ(t, k)] = NIL THEN DelZ(t, k)
  ELSE successor(t, DelZ(t, k))

DelX(t, k) ==
  IF t.left[DelY(t, k)] /= NIL THEN t.left[DelY(t, k)]
  ELSE t.right[DelY(t, k)]

\* The tree as delete(k) has it after the splice and the key copy and
\* before any repair (line 203 done, line 205 not yet).
AfterCopy(t, k) ==
  del_copy(del_splice(t, DelY(t, k), DelX(t, k)), DelZ(t, k), DelY(t, k))

\* delete(k) finds a node with two children.
TwoChildren(t, k) ==
  /\ DelZ(t, k) /= NIL
  /\ t.left[DelZ(t, k)] /= NIL
  /\ t.right[DelZ(t, k)] /= NIL

\* What C24 says of z apart from its right link: y is the leftmost node
\* of z's right subtree and has no left child, y is the node removed, z
\* stays where it was with its parent, left child and colour, and holds
\* y's key.  d is the tree the call leaves and a the tree after the
\* splice and the key copy.
ZKept(t, z, y, d, a) ==
  /\ y = find_min(t, t.right[z])
  /\ t.left[y] = NIL
  /\ y \notin d.nodes
  /\ z \in d.nodes
  /\ a.parent[z] = t.parent[z]
  /\ t.root = z => a.root = z
  /\ t.parent[z] /= NIL =>
       /\ (t.left[t.parent[z]] = z) = (a.left[t.parent[z]] = z)
       /\ (t.right[t.parent[z]] = z) = (a.right[t.parent[z]] = z)
  /\ a.left[z] = t.left[z]
  /\ a.color[z] = t.color[z]
  /\ a.key[z] = t.key[y]

\* What C26 says of the tree d that one insert leaves: every pass of the
\* loop was a red-uncle pass except at most the last, which rotated at
\* the grandparent; rotations were made in that pass only, at most two.
RotatesLast(d) ==
  /\ d.rot <= 2
  /\ d.rot_at \in {0, d.iter}
  /\ d.iter = d.uncle + (IF d.rot_at > 0 THEN 1 ELSE 0)
  /\ d.rot_at = 0 => d.rot = 0
  /\ d.rot_at > 0 => d.rot >= 1

\* What C27 says of d, the tree left_rotate(x) leaves from the tree t
\* where y is x's right child and p is x's parent.
RotatedLeft(t, x, y, p, d) ==
  /\ d.root = IF p = NIL THEN y ELSE t.root
  /\ d.left = [n \in Node |-> IF n = y THEN x
                               ELSE IF n = p /\ t.left[p] = x THEN y
                               ELSE t.left[n]]
  /\ d.right = [n \in Node |-> IF n = x THEN t.left[y]
                                ELSE IF n = p /\ t.left[p] /= x THEN y
                                ELSE t.right[n]]
  /\ d.parent = [n \in Node |-> IF n = y THEN p
                                 ELSE IF n = x THEN y
                                 ELSE IF n = t.left[y] THEN x
                                 ELSE t.parent[n]]
  /\ d.color = t.color
  /\ d.key = t.key
  /\ d.nodes = t.nodes
  /\ in_order_traversal(d) = in_order_traversal(t)

\* The mirror image: right_rotate(y) where x is y's left child.
RotatedRight(t, y, x, p, d) ==
  /\ d.root = IF p = NIL THEN x ELSE t.root
  /\ d.right = [n \in Node |-> IF n = x THEN y
                                ELSE IF n = p /\ t.left[p] /= y THEN x
                                ELSE t.right[n]]
  /\ d.left = [n \in Node |-> IF n = y THEN t.right[x]
                               ELSE IF n = p /\ t.left[p] = y THEN x
                               ELSE t.left[n]]
  /\ d.parent = [n \in Node |-> IF n = x THEN p
                                 ELSE IF n = y THEN x
                                 ELSE IF n = t.right[x] THEN y
                                 ELSE t.parent[n]]
  /\ d.color = t.color
  /\ d.key = t.key
  /\ d.nodes = t.nodes
  /\ in_order_traversal(d) = in_order_traversal(t)

\* The fields of all nodes and the root reference.
Heap == <<root, key, color, left, right, parent, nodes>>

\* ------------------------------------------------------------- the system
Init ==
  /\ root = NIL
  /\ key = [n \in Node |-> NIL]
  /\ color = [n \in Node |-> RED]
  /\ left = [n \in Node |-> NIL]
  /\ right = [n \in Node |-> NIL]
  /\ parent = [n \in Node |-> NIL]
  /\ nodes = {}
  /\ op = "none"
  /\ arg = NIL
  /\ result = NIL
  /\ raised = FALSE
  /\ iterations = 0
  /\ stuck = FALSE
  /\ held = [k \in AllKeys |-> 0]
  /\ path = "none"
  /\ spliced = "none"
  /\ rotations = 0
  /\ invalidRotation = FALSE
  /\ phase = "build"
  /\ built = {}
  /\ pending = {}
  /\ mode = "start"
  /\ file = [exists |-> FALSE, words |-> <<>>]
  /\ line = [cmd |-> "", args |-> <<>>]
  /\ report = "none"
  /\ bheap = EmptyHeaps
  /\ node_map = [i \in {} |-> NIL]
  /\ next_node_id = 0
  /\ bop = [name |-> "none", heap |-> "self"]
  /\ bresult = NIL
  /\ skip = EmptySkip
  /\ present = {}
  /\ sop = [name |-> "none", key |-> NIL]

\* The heap after a call, and what the call did.
Store(t) ==
  /\ root' = t.root
  /\ key' = t.key
  /\ color' = t.color
  /\ left' = t.left
  /\ right' = t.right
  /\ parent' = t.parent
  /\ nodes' = t.nodes
  /\ path' = t.path
  /\ spliced' = t.spliced
  /\ rotations' = t.rot
  /\ invalidRotation' = t.fault
  /\ result' = t.result
  /\ raised' = t.raised
  /\ iterations' = t.iter
  /\ stuck' = t.stuck

\* insert(k), offered while fewer than cap Node objects exist.
InsertUpTo(k, cap) ==
  /\ Cardinality(nodes) < cap
  /\ Store(insert(Tree, k))
  /\ op' = "insert"
  /\ arg' = k
  /\ held' = [held EXCEPT ![k] = @ + 1]
  /\ UNCHANGED notTree

InsertCall(k) == InsertUpTo(k, MaxNodes)

DeleteCall(k) ==
  /\ Store(remove(Tree, k))
  /\ op' = "delete"
  /\ arg' = k
  /\ held' = IF path' /= "absent" THEN [held EXCEPT ![k] = @ - 1] ELSE held
  /\ UNCHANGED notTree

\* Any sequence of insert and delete calls, duplicate keys included.
Insert(k) == InsertCall(k) /\ UNCHANGED <<phase, built, pending>>

Delete(k) == DeleteCall(k) /\ UNCHANGED <<phase, built, pending>>

Next == \E k \in Keys : Insert(k) \/ Delete(k)

Spec == Init /\ [][Next]_vars

\* Queries between the updates.  path tells a search that repeats the
\* call before it from a first one.
SearchCall(k) ==
  /\ Store([search_call(Tree, k) EXCEPT
              !.path = IF op = "search" /\ arg = k
                       THEN "search again" ELSE "search"])
  /\ op' = "search"
  /\ arg' = k
  /\ held' = held
  /\ UNCHANGED notTree

Search(k) == SearchCall(k) /\ UNCHANGED <<phase, built, pending>>

QueryInsert(k) ==
  InsertUpTo(k, MaxQueryNodes) /\ UNCHANGED <<phase, built, pending>>

NextQuery == \E k \in Keys : QueryInsert(k) \/ Delete(k) \/ Search(k)

SpecQuery == Init /\ [][NextQuery]_vars

\* Insert calls only, from the empty tree.
GrowInsert(k) == InsertUpTo(k, MaxGrow) /\ UNCHANGED <<phase, built, pending>>

NextGrow == \E k \in Keys : GrowInsert(k)

SpecGrow == Init /\ [][NextGrow]_vars

\* Insert and delete calls in any order where no key is inserted while
\* the tree holds it: the keys held are pairwise distinct.
DistinctInsert(k) ==
  /\ held[k] = 0
  /\ InsertCall(k)
  /\ UNCHANGED <<phase, built, pending>>

DistinctDelete(k) == DeleteCall(k) /\ UNCHANGED <<phase, built, pending>>

NextDistinct == \E k \in DrainKeys : DistinctInsert(k) \/ DistinctDelete(k)

SpecDistinct == Init /\ [][NextDistinct]_vars

\* Grow then shrink: insert calls only, then delete calls only.
ShrinkInsert(k) ==
  /\ phase = "build"
  /\ InsertUpTo(k, MaxGrow)
  /\ UNCHANGED <<phase, built, pending>>

ShrinkDelete(k) ==
  /\ DeleteCall(k)
  /\ phase' = "drain"
  /\ UNCHANGED <<built, pending>>

NextShrink == \E k \in Keys : ShrinkInsert(k) \/ ShrinkDelete(k)

SpecShrink == Init /\ [][NextShrink]_vars

\* The rotations called as methods on a node of the tree, between insert
\* calls.  No statement of left_rotate or right_rotate raises: the call
\* returns None on both ways out, so raised stays as Tree has it.
LeftRotateCall(n) ==
  /\ n \in nodes
  /\ Store(left_rotate(Tree, n))
  /\ op' = "left_rotate"
  /\ arg' = n
  /\ held' = held
  /\ UNCHANGED notTree

RightRotateCall(n) ==
  /\ n \in nodes
  /\ Store(right_rotate(Tree, n))
  /\ op' = "right_rotate"
  /\ arg' = n
  /\ held' = held
  /\ UNCHANGED notTree

LeftRotate(n) == LeftRotateCall(n) /\ UNCHANGED <<phase, built, pending>>

RightRotate(n) == RightRotateCall(n) /\ UNCHANGED <<phase, built, pending>>

RotInsert(k) ==
  InsertUpTo(k, MaxRotNodes) /\ UNCHANGED <<phase, built, pending>>

NextRotate ==
  \/ \E k \in Keys : RotInsert(k)
  \/ \E n \in Node : LeftRotate(n) \/ RightRotate(n)

SpecRotate == Init /\ [][NextRotate]_vars

\* Build then drain: distinct keys are inserted in any order into the empty
\* tree, then each of them is deleted once, in any order.
BuildInsert(k) ==
  /\ phase = "build"
  /\ k \notin built
  /\ InsertCall(k)
  /\ built' = built \cup {k}
  /\ pending' = pending \cup {k}
  /\ phase' = phase

DrainDelete(k) ==
  /\ k \in pending
  /\ DeleteCall(k)
  /\ phase' = "drain"
  /\ pending' = pending \ {k}
  /\ built' = built

NextDrain == \E k \in DrainKeys : BuildInsert(k) \/ DrainDelete(k)

SpecDrain == Init /\ [][NextDrain]_vars

\* What a step of the driver leaves in the variables.
DriverStore(t) ==
  /\ Store(t)
  /\ held' = t.held
  /\ mode' = t.mode
  /\ report' = t.report
  /\ UNCHANGED <<phase, built, pending, heapVars, skipVars>>

\* Whether the line l inserts a key.
Inserts(l) == l.cmd = "insert" /\ Len(l.args) > 0 /\ IsInt(l.args[1])

\* main() up to the command loop, on the input file f.
LoadFile(f) ==
  /\ mode = "start"
  /\ DriverStore(load_file(Tree, f))
  /\ file' = f
  /\ op' = "load"
  /\ arg' = NIL
  /\ UNCHANGED line

\* One pass of the command loop, on the line l.
Command(l) ==
  /\ mode = "loop"
  /\ Inserts(l) => Cardinality(nodes) < MaxDriverNodes
  /\ DriverStore(run_command(Tree, l))
  /\ line' = l
  /\ op' = l.cmd
  /\ arg' = IF l.cmd \in KeyedCommands /\ Len(l.args) > 0 /\ IsInt(l.args[1])
            THEN IntOf(l.args[1]) ELSE NIL
  /\ UNCHANGED file

Load == \E f \in Files : LoadFile(f)

ReadLine == \E l \in Lines : Command(l)

NextDriver == Load \/ ReadLine

\* tree_test.main.
SpecDriver == Init /\ [][NextDriver]_vars

\* The nodes in either heap.
Live(b) == NodesIn(b, "self") \cup NodesIn(b, "other")

\* The heaps b as a state: a node no heap reaches any more is kept as the
\* object it is, its fields, which no method reads again, left out.
Collected(b) ==
  [b EXCEPT !.key = [n \in HNode |-> IF n \in Live(b) THEN @[n] ELSE NIL],
            !.degree = [n \in HNode |-> IF n \in Live(b) THEN @[n] ELSE 0],
            !.parent = [n \in HNode |-> IF n \in Live(b) THEN @[n] ELSE NIL],
            !.child = [n \in HNode |-> IF n \in Live(b) THEN @[n] ELSE NIL],
            !.sibling = [n \in HNode |-> IF n \in Live(b) THEN @[n] ELSE NIL],
            !.ret = NIL]

\* What a call on the binomial heaps leaves in the variables.
HeapStore(b) ==
  /\ bheap' = Collected(b)
  /\ bresult' = b.ret
  /\ UNCHANGED <<treeVars, driverVars, skipVars>>

\* The keys given to BinomialHeap.insert.
NewHeapKeys == 1..MaxHeapKey

\* insert(k) on the heap h.
HeapInsertCall(h, k) ==
  /\ bheap.made < MaxHeapNodes
  /\ HeapStore(bh_insert(bheap, h, k))
  /\ bop' = [name |-> "insert", heap |-> h]
  /\ UNCHANGED <<node_map, next_node_id>>

\* extract_min() on the heap h.
ExtractMinCall(h) ==
  /\ HeapStore(extract_min(bheap, h))
  /\ bop' = [name |-> "extract_min", heap |-> h]
  /\ UNCHANGED <<node_map, next_node_id>>

\* union_heaps(other) on the heap h.
UnionCall(h) ==
  /\ HeapStore(union_heaps(bheap, h, OtherHeap(h)))
  /\ bop' = [name |-> "union_heaps", heap |-> h]
  /\ UNCHANGED <<node_map, next_node_id>>

\* decrease_key(n, k) on the heap h, n a node in it.
DecreaseKeyCall(h, n, k) ==
  /\ n \in NodesIn(bheap, h)
  /\ HeapStore(decrease_key(bheap, n, k))
  /\ bop' = [name |-> "decrease_key", heap |-> h]
  /\ UNCHANGED <<node_map, next_node_id>>

\* delete_node(n) on the heap h, n a node in it.
DeleteNodeCall(h, n) ==
  /\ n \in NodesIn(bheap, h)
  /\ HeapStore(delete_node(bheap, h, n))
  /\ bop' = [name |-> "delete_node", heap |-> h]
  /\ UNCHANGED <<node_map, next_node_id>>

HeapInsert == \E h \in HeapNames, k \in NewHeapKeys : HeapInsertCall(h, k)

ExtractMin == \E h \in HeapNames : ExtractMinCall(h)

Union == \E h \in HeapNames : UnionCall(h)

DecreaseKey ==
  \E h \in HeapNames, n \in HNode, k \in HeapKeys : DecreaseKeyCall(h, n, k)

DeleteNode == \E h \in HeapNames, n \in HNode : DeleteNodeCall(h, n)

NextBinomial ==
  HeapInsert \/ ExtractMin \/ Union \/ DecreaseKey \/ DeleteNode

\* Two BinomialHeap objects under any sequence of calls.
SpecBinomial == Init /\ [][NextBinomial]_vars

\* What a command of the interface leaves in the variables.
CliStore(c) ==
  /\ bheap' = Collected(c.heap)
  /\ node_map' = c.node_map
  /\ next_node_id' = c.next_node_id
  /\ bresult' = c.report
  /\ UNCHANGED <<treeVars, driverVars, skipVars>>

\* The sequences of at most n keys.
KeyLists(n) == UNION {[1..m -> NewHeapKeys] : m \in 0..n}

\* The Node IDs entered: every one given out, and one never given out.
NodeIds == 0..MaxHeapNodes

\* Option 1.
CliMakeHeap ==
  /\ CliStore(make_heap(Cli))
  /\ bop' = [name |-> "make_heap", heap |-> "self"]

\* Option 2.
CliInsert ==
  \E k \in NewHeapKeys :
    /\ bheap.made < MaxHeapNodes
    /\ CliStore(cli_insert(Cli, k))
    /\ bop' = [name |-> "insert", heap |-> "self"]

\* Option 3.
CliFindMin ==
  /\ CliStore(cli_find_min(Cli))
  /\ bop' = [name |-> "find_min", heap |-> "self"]

\* Option 4.
CliExtractMin ==
  /\ CliStore(cli_extract_min(Cli))
  /\ bop' = [name |-> "extract_min", heap |-> "self"]

\* Option 5.
CliUnion ==
  \E ks \in KeyLists(MaxHeapNodes - bheap.made) :
    /\ CliStore(cli_union(Cli, ks))
    /\ bop' = [name |-> "union", heap |-> "self"]

\* Option 6.
CliDecreaseKey ==
  \E i \in NodeIds, k \in HeapKeys :
    /\ CliStore(cli_decrease_key(Cli, i, k))
    /\ bop' = [name |-> "decrease_key", heap |-> "self"]

\* Option 7.
CliDelete ==
  \E i \in NodeIds :
    /\ CliStore(cli_delete(Cli, i))
    /\ bop' = [name |-> "delete", heap |-> "self"]

\* Option 9.
CliShowNodes ==
  /\ CliStore(show_nodes(Cli))
  /\ bop' = [name |-> "show_nodes", heap |-> "self"]

NextCli ==
  \/ CliMakeHeap
  \/ CliInsert
  \/ CliFindMin
  \/ CliExtractMin
  \/ CliUnion
  \/ CliDecreaseKey
  \/ CliDelete
  \/ CliShowNodes

\* InteractiveBinomialHeap.run.
SpecCli == Init /\ [][NextCli]_vars

\* The outcomes of the coin flips of one insert.
Coins == UNION {[1..n -> BOOLEAN] : n \in 0..MaxFlips}

\* What a call on the skip list leaves in the variables.
SkipStore(s) ==
  /\ skip' = Swept(s)
  /\ UNCHANGED <<treeVars, driverVars, heapVars>>

\* insert(k) with the coin flips falling as cs.
SkipInsertCall(k, cs) ==
  /\ SkipStore(sl_insert([skip EXCEPT !.coins = cs], k))
  /\ present' = present \cup {k}
  /\ sop' = [name |-> "insert", key |-> k]

\* delete(k).
SkipDeleteCall(k) ==
  /\ SkipStore(sl_delete(skip, k))
  /\ present' = present \ {k}
  /\ sop' = [name |-> "delete", key |-> k]

SkipInsert == \E k \in SkipKeys, cs \in Coins : SkipInsertCall(k, cs)

SkipDelete == \E k \in SkipKeys : SkipDeleteCall(k)

NextSkip == SkipInsert \/ SkipDelete

\* A SkipList under any sequence of insert and delete calls.
SpecSkip == Init /\ [][NextSkip]_vars

\* ------------------------------------------------------------- properties

\* C1: after any sequence of insert and delete calls every path from the
\* root down to an absent child passes through the same number of BLACK
\* nodes.
C1_UniformBlackHeight == BlackHeight(Tree, root, MaxNodes + 1) >= 0

\* C2: after any sequence of insert and delete calls no RED node has a RED
\* parent.
C2_NoRedRed ==
  \A n \in nodes :
    color[n] = RED =>
      /\ left[n] /= NIL => color[left[n]] /= RED
      /\ right[n] /= NIL => color[right[n]] /= RED

\* C3: whenever the tree is non-empty after a call, its root is BLACK.
C3_RootBlack == root /= NIL => color[root] = BLACK

C3_Witness ==
  /\ op = "delete"
  /\ path = "fix_delete_null"
  /\ rotations > 0
  /\ root /= NIL
  /\ color[root] = BLACK

\* C4: after every call parent links are the exact inverse of child links:
\* the root has no parent, every child of n has parent n, every other
\* node is the left or right child of its parent, and no node is the
\* target of two child links.
C4_ParentLinks ==
  /\ root /= NIL => (root \in nodes /\ parent[root] = NIL)
  /\ root = NIL => nodes = {}
  /\ \A n \in nodes :
       /\ left[n] /= NIL => (left[n] \in nodes /\ parent[left[n]] = n)
       /\ right[n] /= NIL => (right[n] \in nodes /\ parent[right[n]] = n)
       /\ n /= root =>
            /\ parent[n] \in nodes
            /\ left[parent[n]] = n \/ right[parent[n]] = n
       /\ Cardinality({m \in nodes : left[m] = n})
            + Cardinality({m \in nodes : right[m] = n}) <= 1
       /\ root = n => \A m \in nodes : left[m] /= n /\ right[m] /= n
  /\ Size(Tree) = Cardinality(nodes)

C4_Witness ==
  /\ op = "delete"
  /\ spliced = "successor"
  /\ rotations > 0
  /\ Cardinality(nodes) >= 3
  /\ C4_ParentLinks

\* C5: after any sequence of insert and delete calls, duplicate keys
\* allowed, the in-order traversal visits the keys in non-decreasing order.
C5_InOrderSorted ==
  LET s == in_order_traversal(Tree)
  IN \A i \in 1..(Len(s) - 1) : s[i] <= s[i + 1]

C5_Witness ==
  LET s == in_order_traversal(Tree)
  IN /\ op = "delete"
     /\ rotations > 0
     /\ Len(s) >= 4
     /\ \E i \in 1..(Len(s) - 1) : s[i] = s[i + 1]
     /\ \E i \in 1..(Len(s) - 1) : s[i] < s[i + 1]

\* C6: a tree built by inserting distinct keys in any order is empty once
\* each of those keys has been deleted once, in any order, and search then
\* finds none of them.
C6_DrainedEmpty ==
  (phase = "drain" /\ pending = {}) =>
    (root = NIL /\ \A k \in built : search(Tree, k) = NIL)

C6_Witness ==
  /\ phase = "drain"
  /\ pending = {}
  /\ Cardinality(built) >= 4
  /\ root = NIL

\* C7: no insert or delete call ever invokes left_rotate on a node without
\* a right child or right_rotate on a node without a left child.
C7_NoInvalidRotation == invalidRotation = FALSE

C7_Witness ==
  /\ op = "delete"
  /\ rotations >= 2
  /\ invalidRotation = FALSE

\* C8: in every reachable tree, insert(K) immediately followed by delete(K)
\* gives back the multiset of keys held before, for every key K.
C8_RoundTrip ==
  \A k \in Keys :
    Cardinality(nodes) < MaxNodes =>
      KeyCount(remove(insert(Tree, k), k)) = KeyCount(Tree)

C8_Witness ==
  \E k \in Keys :
    /\ Cardinality(nodes) < MaxNodes
    /\ Count(Tree, k) > 0
    /\ KeyCount(remove(insert(Tree, k), k)) = KeyCount(Tree)
    /\ LET t == remove(insert(Tree, k), k)
       IN Shape(t, t.root, MaxNodes + 1) /= Shape(Tree, root, MaxNodes + 1)

\* C9: delete(K) on a tree holding K removes exactly one occurrence of K
\* and leaves the number of occurrences of every other key unchanged.
C9_DeleteRemovesOne ==
  \A k \in Keys :
    Count(Tree, k) > 0 =>
      KeyCount(delete(Tree, k)) = [KeyCount(Tree) EXCEPT ![k] = @ - 1]

\* Deleting the root key 2 of the tree {1, 2, 3}, a node with two children.
C9_Witness ==
  /\ op = "delete"
  /\ arg = 2
  /\ spliced = "successor"
  /\ in_order_traversal(Tree) = <<1, 3>>

\* C10: delete(K) on a tree that does not hold K leaves the root, every
\* link, every key and every colour unchanged.
C10_DeleteAbsentNoOp ==
  [][(op' = "delete" /\ Count(Tree, arg') = 0) => UNCHANGED Heap]_vars

C10_Witness ==
  /\ op = "delete"
  /\ path = "absent"
  /\ Count(Tree, arg) = 0
  /\ Size(Tree) >= 3

\* C11: in every state reachable by insert and delete calls, duplicates
\* allowed, search(K) returns a node whose key is K exactly when K has been
\* inserted more times than a delete call found it, and None otherwise.
C11_SearchFindsHeld ==
  \A k \in Keys :
    /\ held[k] > 0 => (search(Tree, k) /= NIL /\ key[search(Tree, k)] = k)
    /\ held[k] <= 0 => search(Tree, k) = NIL

\* After a delete that found one of several copies of its key, with
\* another key deleted to the last copy before.
C11_Witness ==
  /\ op = "delete"
  /\ path /= "absent"
  /\ rotations > 0
  /\ held[arg] >= 1
  /\ search(Tree, arg) /= NIL
  /\ search(Tree, arg) /= root
  /\ key[search(Tree, arg)] = arg
  /\ \E k \in Keys : held[k] = 0 /\ search(Tree, k) = NIL

\* C12: search(K) changes neither the root nor any link, key or colour,
\* and a search(K) that follows a search(K) with no insert or delete in
\* between returns what the first returned.
C12_SearchReadOnly ==
  [][op' = "search" =>
       /\ UNCHANGED Heap
       /\ path' = "search again" => result' = result]_vars

\* A repeated search that found its key below the root.
C12_Witness ==
  /\ op = "search"
  /\ path = "search again"
  /\ result /= NIL
  /\ result /= root
  /\ key[result] = arg
  /\ Cardinality(nodes) >= 4

\* C13: after n insert calls and no delete call on the empty tree the
\* height h = get_height(root) satisfies 2^h <= (n + 1)^2, and is -1 for
\* n = 0.
C13_HeightBound ==
  IF HeldIn(AllKeys) = 0 THEN get_height(Tree, root) = -1
  ELSE 2 ^ get_height(Tree, root) <= (HeldIn(AllKeys) + 1) * (HeldIn(AllKeys) + 1)

\* Eight inserts, where a tree that is never rebalanced would break the
\* bound, with keys inserted in non-decreasing order.
C13_Witness ==
  /\ op = "insert"
  /\ HeldIn(AllKeys) = 8
  /\ Cardinality(nodes) = 8
  /\ \A n \in 1..7 : key[n] <= key[n + 1]
  /\ get_height(Tree, root) = 3

\* C14: inserting three distinct keys a < b < c in ascending order into
\* the empty tree gives exactly the root b BLACK with the left child a RED
\* and the right child c RED, both without children.  (With insert calls
\* only, node n is the one the n-th call created.)
C14_ThreeAscending ==
  (nodes = {1, 2, 3} /\ key[1] < key[2] /\ key[2] < key[3]) =>
    Shape(Tree, root, MaxDepth) =
      <<key[2], BLACK, <<key[1], RED, <<>>, <<>>>>,
                       <<key[3], RED, <<>>, <<>>>>>>

C14_Witness ==
  /\ op = "insert"
  /\ nodes = {1, 2, 3}
  /\ key[1] < key[2]
  /\ key[2] < key[3]
  /\ arg = key[3]
  /\ rotations = 1
  /\ root = 2

\* C15: in every reachable non-empty tree find_min(root) is a node of the
\* tree whose key no key of the tree is below, find_max(root) one whose key
\* no key is above, and the printing queries report these keys; on the
\* empty tree find_min_value and find_max_value report "Tree empty".
C15_MinMax ==
  IF root = NIL
  THEN /\ find_min_value(Tree) = <<"Tree empty", NIL>>
       /\ find_max_value(Tree) = <<"Tree empty", NIL>>
  ELSE /\ find_min(Tree, root) \in nodes
       /\ find_max(Tree, root) \in nodes
       /\ \A n \in nodes : key[find_min(Tree, root)] <= key[n]
       /\ \A n \in nodes : key[n] <= key[find_max(Tree, root)]
       /\ find_min_value(Tree)
            = <<"Minimum value in the tree is", key[find_min(Tree, root)]>>
       /\ find_max_value(Tree)
            = <<"Maximum value in the tree is", key[find_max(Tree, root)]>>

\* After a delete that rotated, on a tree whose extremes are both below
\* the root and differ from the root key.
C15_Witness ==
  /\ op = "delete"
  /\ rotations > 0
  /\ Cardinality(nodes) >= 4
  /\ find_min(Tree, root) /= root
  /\ find_max(Tree, root) /= root
  /\ key[find_min(Tree, root)] < key[root]
  /\ key[root] < key[find_max(Tree, root)]
  /\ find_min_value(Tree) = <<"Minimum value in the tree is", 1>>

\* C16: while the keys held are pairwise distinct, find_successor(K) and
\* find_predecessor(K) report that the key does not exist when K is absent;
\* when K is present find_successor reports the element after K in the
\* sorted array of the keys held, or no successor when K is the greatest,
\* and find_predecessor the element before K, or no predecessor when K is
\* the least.
C16_NeighbourInSortedArray ==
  \A k \in DrainKeys :
    IF k \notin Present
    THEN /\ find_successor(Tree, k) = <<"The requested key does not exist", NIL>>
         /\ find_predecessor(Tree, k) = <<"The requested key does not exist", NIL>>
    ELSE /\ find_successor(Tree, k) =
              IF Above(k) = {} THEN <<"No successor for requested key", NIL>>
              ELSE <<"The Successor is", Least(Above(k))>>
         /\ find_predecessor(Tree, k) =
              IF Below(k) = {} THEN <<"No predecessor for requested key", NIL>>
              ELSE <<"The Predecessor is", Greatest(Below(k))>>

\* After a delete repaired by fix_delete_null: a key whose successor is
\* found by climbing, one whose predecessor is found by climbing, the
\* greatest key and an absent key.
C16_Witness ==
  /\ op = "delete"
  /\ path = "fix_delete_null"
  /\ Cardinality(Present) >= 4
  /\ \E k \in Present :
       /\ right[search(Tree, k)] = NIL
       /\ Above(k) /= {}
       /\ find_successor(Tree, k) = <<"The Successor is", Least(Above(k))>>
       /\ successor(Tree, search(Tree, k)) /= parent[search(Tree, k)]
  /\ \E k \in Present :
       /\ left[search(Tree, k)] = NIL
       /\ Below(k) /= {}
       /\ find_predecessor(Tree, k) = <<"The Predecessor is", Greatest(Below(k))>>
  /\ find_successor(Tree, Greatest(Present))
       = <<"No successor for requested key", NIL>>
  /\ find_successor(Tree, arg) = <<"The requested key does not exist", NIL>>

\* C17: in every reachable state, duplicates included, find_successor(K)
\* for a present key K reports the least key held that is strictly greater
\* than K, or no successor when no greater key is held, and
\* find_predecessor(K) the greatest key held strictly below K, or no
\* predecessor; neither ever reports K itself.
C17_StrictNeighbour ==
  \A k \in Present \cap Keys :
    /\ find_successor(Tree, k) =
         IF Above(k) = {} THEN <<"No successor for requested key", NIL>>
         ELSE <<"The Successor is", Least(Above(k))>>
    /\ find_predecessor(Tree, k) =
         IF Below(k) = {} THEN <<"No predecessor for requested key", NIL>>
         ELSE <<"The Predecessor is", Greatest(Below(k))>>

\* C18 as stated: after any sequence of insert calls no node's left
\* subtree holds a key equal to the node's own key.
C18_NestRight ==
  \A n \in nodes : Occurrences(InOrder(Tree, left[n], MaxDepth), key[n]) = 0

\* C18, amended: insert attaches a duplicate to the right.  In every tree
\* built by insert calls, when insert(K) has attached its new node and
\* has not yet called fix_insert, the new node is in the right subtree of
\* every ancestor whose key is K.
C18_AttachedRight ==
  \A k \in Keys :
    Cardinality(nodes) < MaxGrow =>
      RightOfEquals(Attached(Tree, k), NewNode(Tree), k, MaxDepth)

\* A tree in which a rotation has moved a duplicate into a left subtree,
\* and an insert of a key that is attached two levels below an equal key.
C18_Witness ==
  /\ op = "insert"
  /\ rotations > 0
  /\ ~C18_NestRight
  /\ Cardinality(nodes) < MaxGrow
  /\ \E k \in Keys :
       /\ held[k] >= 2
       /\ Attached(Tree, k).parent[NewNode(Tree)] /= NIL
       /\ key[Attached(Tree, k).parent[NewNode(Tree)]] /= k
       /\ parent[Attached(Tree, k).parent[NewNode(Tree)]] /= NIL
       /\ key[parent[Attached(Tree, k).parent[NewNode(Tree)]]] = k

\* C19: every insert and delete call ends.  No loop of fix_insert,
\* fix_delete or fix_delete_null is still running after MaxIter passes,
\* and in the tree a call leaves, every descent along child links and
\* every climb along parent links (search, find_min, successor) reaches
\* None within as many steps as there are nodes.
C19_CallsEnd ==
  /\ stuck = FALSE
  /\ iterations <= MaxIter
  /\ DescentEnds(Tree, root, Cardinality(nodes))
  /\ \A n \in nodes : ClimbEnds(Tree, n, Cardinality(nodes))

\* A delete whose repair loop went round more than once.
C19_Witness ==
  /\ op = "delete"
  /\ path = "fix_delete_null"
  /\ iterations >= 2
  /\ stuck = FALSE
  /\ Cardinality(nodes) >= 3

\* C20: left_rotate called on a node without a right child, and
\* right_rotate called on a node without a left child, leaves the root,
\* every link, key and colour unchanged and raises a fault instead of
\* returning silently.
C20_InvalidRotationSignalled ==
  [][(\/ op' = "left_rotate" /\ right[arg'] = NIL
      \/ op' = "right_rotate" /\ left[arg'] = NIL) =>
       (UNCHANGED Heap /\ raised')]_vars

\* C22: when delete removes a BLACK node y without children, the first
\* sibling w that fix_delete_null examines is the sibling of the position
\* y left, the other child of y's former parent.
C22_SiblingOfHole ==
  \A k \in Keys :
    delete(Tree, k).path = "fix_delete_null" =>
      delete(Tree, k).examined = delete(Tree, k).hole_sibling

\* C23: whenever delete removes a BLACK node, the repair that runs,
\* fix_delete or fix_delete_null, ends with the node at which its climb
\* stopped coloured BLACK.
C23_RepairEndsBlack ==
  \A k \in Keys :
    delete(Tree, k).path \in {"fix_delete", "fix_delete_null"} =>
      /\ delete(Tree, k).stopped /= NIL
      /\ delete(Tree, k).color[delete(Tree, k).stopped] = BLACK

\* C24 as stated: when delete(K) finds a node z with two children, the
\* node removed is z's in-order successor y, and right after the splice
\* and the key copy z is where it was, with the same parent, the same two
\* child links and the same colour, holding y's key.
C24_ZKeepsLinks ==
  \A k \in Keys :
    TwoChildren(Tree, k) =>
      /\ ZKept(Tree, DelZ(Tree, k), DelY(Tree, k), delete(Tree, k),
               AfterCopy(Tree, k))
      /\ AfterCopy(Tree, k).right[DelZ(Tree, k)] = right[DelZ(Tree, k)]

\* C24, amended: as stated, except that z's right link is unchanged only
\* when y is not z's right child; when y is z's right child the splice
\* makes z's right link point to y's right child (or to nothing).
C24_ZKeepsPlace ==
  \A k \in Keys :
    TwoChildren(Tree, k) =>
      /\ ZKept(Tree, DelZ(Tree, k), DelY(Tree, k), delete(Tree, k),
               AfterCopy(Tree, k))
      /\ AfterCopy(Tree, k).right[DelZ(Tree, k)] =
           IF DelY(Tree, k) = right[DelZ(Tree, k)]
           THEN right[DelY(Tree, k)]
           ELSE right[DelZ(Tree, k)]

\* A tree where delete takes a successor that is z's right child and has
\* a right child of its own, which becomes z's right child.
C24_Witness ==
  \E k \in Keys :
    /\ TwoChildren(Tree, k)
    /\ DelY(Tree, k) = right[DelZ(Tree, k)]
    /\ right[DelY(Tree, k)] /= NIL
    /\ key[DelY(Tree, k)] /= k
    /\ AfterCopy(Tree, k).right[DelZ(Tree, k)] = right[DelY(Tree, k)]
    /\ AfterCopy(Tree, k).key[DelZ(Tree, k)] = key[DelY(Tree, k)]

\* What C25 says of one delete on the tree t that removes y: d is the
\* tree the call leaves and a the tree after the splice and the key copy.
RedUntouched(t, y, d, a) ==
  /\ t.color[y] = RED =>
       /\ d.path = "red"
       /\ d.rot = 0
       /\ d.iter = 0
       /\ d.root = a.root
       /\ \A n \in t.nodes \ {y} :
            /\ d.color[n] = t.color[n]
            /\ d.left[n] = a.left[n]
            /\ d.right[n] = a.right[n]
            /\ d.parent[n] = a.parent[n]
            /\ d.key[n] = a.key[n]
  /\ d.path \in {"fix_delete", "fix_delete_null"} => t.color[y] = BLACK

\* C25: when the node y that delete removes is RED no repair runs: no
\* rotation is performed, every remaining node keeps its colour, and the
\* root and the links of the remaining nodes are those the splice and the
\* key copy left; a repair runs only when y is BLACK.
C25_RedNoRepair ==
  \A k \in Keys :
    DelZ(Tree, k) /= NIL =>
      RedUntouched(Tree, DelY(Tree, k), delete(Tree, k), AfterCopy(Tree, k))

\* After a delete that removed a RED successor below a tree of at least
\* three remaining nodes.
C25_Witness ==
  /\ op = "delete"
  /\ path = "red"
  /\ spliced = "successor"
  /\ rotations = 0
  /\ Cardinality(nodes) >= 3

\* C26: in every insert the red-uncle passes of fix_insert only recolour,
\* the pass that rotates at the grandparent is the last pass of the loop,
\* and the call performs at most two rotations.
C26_InsertRotations ==
  \A k \in Keys :
    Cardinality(nodes) < MaxGrow => RotatesLast(insert(Tree, k))

\* An insert that recoloured in its first pass and rotated twice in its
\* second.
C26_Witness ==
  /\ op = "insert"
  /\ iterations = 2
  /\ rotations = 2
  /\ Cardinality(nodes) >= 6

\* C27: left_rotate(x) on a node x with a right child y puts y where x
\* was (at the root, or in the same child slot of x's parent), makes x
\* the left child of y and y's former left subtree the right subtree of
\* x, changes no colour, no key and no other link, and leaves the
\* in-order key sequence as it was; right_rotate is the mirror image.
C27_RotationEffect ==
  \A n \in nodes :
    /\ right[n] /= NIL =>
         RotatedLeft(Tree, n, right[n], parent[n], left_rotate(Tree, n))
    /\ left[n] /= NIL =>
         RotatedRight(Tree, n, left[n], parent[n], right_rotate(Tree, n))

\* After a left_rotate of a node below the root whose right child had a
\* left subtree: the node now has a parent, a grandparent and that
\* subtree on its right.
C27_Witness ==
  /\ op = "left_rotate"
  /\ rotations = 1
  /\ parent[arg] /= NIL
  /\ left[parent[arg]] = arg
  /\ parent[parent[arg]] /= NIL
  /\ right[parent[parent[arg]]] = parent[arg]
  /\ right[arg] /= NIL
  /\ Cardinality(nodes) = 4

\* Whether the line l gives a keyed command an argument int() rejects.
BadArgument(l) ==
  l.cmd \in KeyedCommands /\ Len(l.args) > 0 /\ ~IsInt(l.args[1])

\* Whether the file f exists and holds a token int() rejects.
BadFile(f) == f.exists /\ \E i \in 1..Len(f.words) : ~IsInt(f.words[i])

\* C28: in the line-command driver a command whose argument is not an
\* integer ('insert abc', 'delete x') is reported and skipped: the tree is
\* unchanged and the driver goes on reading commands; and an input file
\* with a token that is not an integer has no key at all inserted before
\* the command loop starts.
C28_BadInputSkipped ==
  [][/\ (mode = "loop" /\ BadArgument(line')) =>
          /\ UNCHANGED <<Heap, held>>
          /\ report' = "Invalid input. Please enter valid numbers."
          /\ mode' = "loop"
     /\ (mode = "start" /\ BadFile(file')) =>
          /\ root' = NIL
          /\ nodes' = {}
          /\ report' = "Invalid data in input file. Starting with empty tree."
          /\ mode' = "loop"]_vars

\* C28 witness: the file [2, x] was rejected with the tree left empty, and
\* in the loop a key was inserted and then 'delete x' reported and skipped.
C28_Witness ==
  /\ mode = "loop"
  /\ file = [exists |-> TRUE, words |-> <<KeyWord(2), <<"x">>>>]
  /\ line = [cmd |-> "delete", args |-> <<<<"x">>>>]
  /\ report = "Invalid input. Please enter valid numbers."
  /\ Cardinality(nodes) = 1

\* Whether e, the heaps after extract_min on the heap h of b, returned the
\* smallest key of h and holds one occurrence less of it and every other
\* key as often as before, the other heap as it was.
ExtractsSmallest(b, h, e) ==
  /\ e.ret = Smallest(b, h)
  /\ \A k \in HeapKeys \cup {INT_MIN} :
       Holding(e, h, k) =
         Holding(b, h, k) - (IF k = Smallest(b, h) THEN 1 ELSE 0)
  /\ Cardinality(NodesIn(e, h)) = Cardinality(NodesIn(b, h)) - 1
  /\ NodesIn(e, OtherHeap(h)) = NodesIn(b, OtherHeap(h))

\* C21: in every binomial heap reached by insert, extract_min, union_heaps,
\* decrease_key and delete_node calls, extract_min on a non-empty heap
\* returns the smallest key stored and removes exactly one occurrence of
\* it, all other keys staying (the extract_min inside delete_node, on the
\* heap with the node's key decreased, included).
C21_ExtractMinSmallest ==
  \A h \in HeapNames :
    bheap.head[h] /= NIL =>
      /\ ExtractsSmallest(bheap, h, extract_min(bheap, h))
      /\ \A n \in NodesIn(bheap, h) :
           ExtractsSmallest(decrease_key(bheap, n, INT_MIN), h,
                            delete_node(bheap, h, n))

\* C21 witness: extract_min returned 0, a key that only decrease_key
\* writes, from a heap of four nodes, three staying, two of them with
\* equal keys.
C21_Witness ==
  /\ bop.name = "extract_min"
  /\ bresult = 0
  /\ Cardinality(NodesIn(bheap, bop.heap)) = 3
  /\ \E k \in HeapKeys : Holding(bheap, bop.heap, k) = 2

\* The Node IDs tracked whose nodes are in the heap.
Tracked(c) == DOMAIN valid_nodes(c.heap, c.node_map)

\* Whether in d, the interface c after a command on the Node ID i, every
\* other tracked Node ID still refers to a node in the heap with the key
\* it had.
OthersKept(c, i, d) ==
  \A j \in Tracked(c) \ {i} :
    /\ j \in Tracked(d)
    /\ d.node_map[j] = c.node_map[j]
    /\ d.heap.key[d.node_map[j]] = c.heap.key[c.node_map[j]]

\* C29: in the binomial-heap interface a Decrease-Key or Delete on the
\* tracked Node ID i affects only that ID: every other tracked Node ID
\* still refers to a node in the heap with the same key as before, and
\* after Delete the node Node ID i referred to is no longer in the heap.
C29_OnlyThatId ==
  \A i \in Tracked(Cli) :
    /\ \A k \in HeapKeys : OthersKept(Cli, i, cli_decrease_key(Cli, i, k))
    /\ OthersKept(Cli, i, cli_delete(Cli, i))
    /\ ~node_in_heap(cli_delete(Cli, i).heap, node_map[i])

\* Whether the sequence ks is strictly increasing.
Increasing(ks) == \A i \in 1..(Len(ks) - 1) : ks[i] < ks[i + 1]

\* Whether the levels of s, with the heads hs, hold the keys ks as the
\* claim says.
Levelled(s, hs, ks) ==
  /\ Len(hs) = s.level + 1
  /\ hs[s.level + 1] = s.head0
  /\ Members(LevelOf(s, hs, 0)) = ks
  /\ \A i \in 0..s.level : Increasing(LevelOf(s, hs, i))
  /\ \A i \in 1..s.level :
       Members(LevelOf(s, hs, i)) \subseteq Members(LevelOf(s, hs, i - 1))

WellLevelled(s, ks) == Levelled(s, Heads(s), ks)

\* Whether no level of s, with the heads hs, holds the key k.
OnNoLevel(s, hs, k) ==
  \A i \in DOMAIN hs : k \notin Members(RowKeys(s, hs[i]))

Gone(s, k) == OnNoLevel(s, Heads(s), k)

\* C30: after any sequence of skip-list insert and delete calls, under
\* every outcome of the coin flips, the bottom level holds exactly the keys
\* inserted and not since deleted, each once and in strictly increasing
\* order, and every higher level is a strictly increasing sub-sequence of
\* the level below it; inserting a key already present changes nothing,
\* and delete removes the key from every level.
C30_SkipLevels ==
  /\ WellLevelled(skip, present)
  /\ \A k \in present, cs \in Coins :
       [sl_insert([skip EXCEPT !.coins = cs], k) EXCEPT !.coins = <<>>] = skip
  /\ \A k \in present : Gone(sl_delete(skip, k), k)

\* C30 witness: a delete has left three keys on three levels, the upper
\* two levels with fewer keys than the one below.
C30_Witness ==
  /\ sop.name = "delete"
  /\ skip.level = 2
  /\ Len(LevelKeys(skip, 0)) = 3
  /\ Len(LevelKeys(skip, 1)) = 2
  /\ Len(LevelKeys(skip, 2)) = 1

=============================================================================
